---- MODULE Spec2Model ----
(***************************************************************************)
(* Edit-activity analytics of wikipedia_mcp.WikipediaClient:               *)
(* analyze_edit_activity (date filter, time windows, z-score spikes) and   *)
(* get_significant_revisions (weighted significance score), over a page    *)
(* history that grows as edits are saved.                                  *)
(*                                                                         *)
(* Numbers.  Python computes z-scores and scores in binary floating point. *)
(* The model computes them exactly: a z-score is kept as a sign and the    *)
(* rational square  z^2 = num/den, a score as a rational; comparisons are  *)
(* cross-multiplications of integers.  round(x, 2) is modelled as the      *)
(* nearest hundredth (ties to even) of the exact value.                    *)
(*                                                                         *)
(* Time.  A timestamp string 'YYYY-MM-DDTHH:MM:SSZ' is modelled by its     *)
(* date, counted in days from 2024-01-01 (a Monday), and its time of day   *)
(* in seconds; datetime.fromisoformat maps it to seconds since that day.   *)
(***************************************************************************)
EXTENDS Integers, Sequences, FiniteSets, TLC

VARIABLES
    revisions,  \* the page history held by the revision source, newest first
    api,        \* what the next fetch meets: "ok", "missing", "error"
    call,       \* the last call: operation and arguments (NoCall before any)
    result,     \* the value the last call returned
    locals,     \* the locals of the last call when it returned
    previous    \* what the call before returned, when the last call repeated it

vars == <<revisions, api, call, result, locals, previous>>

-----------------------------------------------------------------------------
(* Model bounds *)

MaxRevs == 5        \* revisions in the page history (Spec)
LongDays == 11      \* days of history (SpecLong)

-----------------------------------------------------------------------------
(* Small helpers *)

Range(s) == {s[i] : i \in 1..Len(s)}

Abs(x) == IF x < 0 THEN 0 - x ELSE x

Min2(a, b) == IF a <= b THEN a ELSE b

Max2(a, b) == IF a >= b THEN a ELSE b

RECURSIVE SumSeq(_)
SumSeq(s) == IF Len(s) = 0 THEN 0 ELSE Head(s) + SumSeq(Tail(s))

RECURSIVE Gcd(_, _)
Gcd(a, b) == IF b = 0 THEN a ELSE Gcd(b, a % b)

\* dict.get(key, default)
Get(d, key, default) == IF key \in DOMAIN d THEN d[key] ELSE default

\* d[key] = value on a dict
Put(d, key, value) ==
    [k \in (DOMAIN d) \cup {key} |-> IF k = key THEN value ELSE d[k]]

\* Python's None, and an int where None may stand instead
None == [k |-> "None"]

IsNone(x) == x.k = "None"

IntOf(v) == [k |-> "int", v |-> v]

-----------------------------------------------------------------------------
(* Time: timestamps, parsing, calendar labels *)

SecondsPerDay == 86400

\* the string 'YYYY-MM-DDTHH:MM:SSZ' of day `day` (from 2024-01-01), second `sec`
IsoZ(day, sec) == [k |-> "iso", day |-> day, sec |-> sec, tz |-> "Z"]

\* the same instant written without zone designator (a naive datetime)
IsoNaive(day, sec) == [k |-> "iso", day |-> day, sec |-> sec, tz |-> ""]

\* a string that is no ISO timestamp, e.g. 'invalid-date'
Garbage == [k |-> "str", text |-> "invalid-date"]

\* the empty string
EmptyStr == [k |-> "str", text |-> ""]

\* `if start_datetime:` and `start_datetime or ...`: None and '' are false
Truthy(x) == ~IsNone(x) /\ x # EmptyStr

\* s.replace('Z', '+00:00') followed by datetime.fromisoformat: the parsed
\* datetime (aware when the string names a zone), or a ValueError
ParseOk(s) == s.k = "iso"

fromisoformat(s) ==
    [secs |-> s.day * SecondsPerDay + s.sec, aware |-> s.tz = "Z"]

\* datetime < datetime raises TypeError between a naive and an aware value
Comparable(a, b) == a.aware = b.aware

MonthLengths == <<31, 29, 31, 30, 31, 30, 31, 31, 30, 31, 30, 31>>

RECURSIVE MonthOf(_, _)
MonthOf(dayOfYear, m) ==
    IF dayOfYear < MonthLengths[m] \/ m = 12
    THEN <<m, dayOfYear + 1>>
    ELSE MonthOf(dayOfYear - MonthLengths[m], m + 1)

\* the calendar date <<year, month, day>> of a parsed datetime
DateOf(t) == <<2024>> \o MonthOf(t.secs \div SecondsPerDay, 1)

\* timestamp.weekday(): Monday = 0
Weekday(t) == (t.secs \div SecondsPerDay) % 7

\* timestamp - timedelta(days = n)
MinusDays(t, n) == [t EXCEPT !.secs = t.secs - n * SecondsPerDay]

\* strftime with the formats the window keys use: the formatted date fields
\* and the literal text that follows them
StrfDay(t) == [date |-> DateOf(t), suffix |-> ""]

StrfWeek(t) == [date |-> DateOf(t), suffix |-> "-week"]

StrfMonth(t) == [date |-> SubSeq(DateOf(t), 1, 2), suffix |-> ""]

-----------------------------------------------------------------------------
(* The revision source: get_page_revisions *)

RECURSIVE WithSizediff(_, _)
WithSizediff(revs, i) ==
    IF i > Len(revs) THEN <<>>
    ELSE <<Put(revs[i], "sizediff",
               IF i < Len(revs) THEN IntOf(revs[i].size - revs[i + 1].size) ELSE None)>>
         \o WithSizediff(revs, i + 1)

get_page_revisions(revs, status) ==
    CASE status = "missing" ->
            [exists |-> FALSE, error |-> "Page does not exist"]
      [] status = "error" ->
            [exists |-> FALSE, error |-> "API Error"]
      [] OTHER ->
            [exists |-> TRUE, revisions |-> WithSizediff(revs, 1)]

\* what the analyses' call self.get_page_revisions(...) meets: the dict the
\* method returns, or an exception that leaves it (status "raises")
FetchRevisions(revs, status) ==
    IF status = "raises" THEN [raised |-> TRUE, error |-> "API Error"]
    ELSE get_page_revisions(revs, status)

Raised(revisions_result) == "raised" \in DOMAIN revisions_result

\* the fetch returned and revisions_result.get('exists') is true
Fetched(revisions_result) == ~Raised(revisions_result) /\ revisions_result.exists

\* variant: the source's message is replaced by the default text
SourceErrorMutDefault(revisions_result) == "Page does not exist"

\* revisions_result.get('error', 'Page does not exist')
SourceError(revisions_result) == Get(revisions_result, "error", "Page does not exist")

-----------------------------------------------------------------------------
(* The date-range filter shared by both analyses *)

\* variant: the end bound is exclusive
FilterOneMutExclusiveEnd(rev, start_datetime, end_datetime) ==
    IF ~ParseOk(rev.timestamp) THEN "raise"
    ELSE LET rev_time == fromisoformat(rev.timestamp) IN
         IF Truthy(start_datetime) /\ ~ParseOk(start_datetime) THEN "raise"
         ELSE IF Truthy(start_datetime)
                 /\ ~Comparable(rev_time, fromisoformat(start_datetime)) THEN "raise"
         ELSE IF Truthy(start_datetime)
                 /\ rev_time.secs < fromisoformat(start_datetime).secs THEN "skip"
         ELSE IF Truthy(end_datetime) /\ ~ParseOk(end_datetime) THEN "raise"
         ELSE IF Truthy(end_datetime)
                 /\ ~Comparable(rev_time, fromisoformat(end_datetime)) THEN "raise"
         ELSE IF Truthy(end_datetime)
                 /\ rev_time.secs >= fromisoformat(end_datetime).secs THEN "skip"
         ELSE "keep"

\* variant: a bound that cannot be parsed or compared is taken as omitted
FilterOneMutIgnoreBadBound(rev, start_datetime, end_datetime) ==
    IF ~ParseOk(rev.timestamp) THEN "raise"
    ELSE LET rev_time == fromisoformat(rev.timestamp) IN
         IF Truthy(start_datetime) /\ ParseOk(start_datetime)
            /\ Comparable(rev_time, fromisoformat(start_datetime))
            /\ rev_time.secs < fromisoformat(start_datetime).secs THEN "skip"
         ELSE IF Truthy(end_datetime) /\ ParseOk(end_datetime)
                 /\ Comparable(rev_time, fromisoformat(end_datetime))
                 /\ rev_time.secs > fromisoformat(end_datetime).secs THEN "skip"
         ELSE "keep"

\* variant: a record that already carries a parsed timestamp is passed over
FilterOneMutSkipAnnotated(rev, start_datetime, end_datetime) ==
    IF "parsed_timestamp" \in DOMAIN rev THEN "skip"
    ELSE IF ~ParseOk(rev.timestamp) THEN "raise"
    ELSE LET rev_time == fromisoformat(rev.timestamp) IN
         IF Truthy(start_datetime) /\ ~ParseOk(start_datetime) THEN "raise"
         ELSE IF Truthy(start_datetime)
                 /\ ~Comparable(rev_time, fromisoformat(start_datetime)) THEN "raise"
         ELSE IF Truthy(start_datetime)
                 /\ rev_time.secs < fromisoformat(start_datetime).secs THEN "skip"
         ELSE IF Truthy(end_datetime) /\ ~ParseOk(end_datetime) THEN "raise"
         ELSE IF Truthy(end_datetime)
                 /\ ~Comparable(rev_time, fromisoformat(end_datetime)) THEN "raise"
         ELSE IF Truthy(end_datetime)
                 /\ rev_time.secs > fromisoformat(end_datetime).secs THEN "skip"
         ELSE "keep"

\* the outcome of the try block for one revision: "keep", "skip" (continue)
\* or "raise" (an exception, logged, and the revision is dropped)
FilterOne(rev, start_datetime, end_datetime) ==
    IF ~ParseOk(rev.timestamp) THEN "raise"
    ELSE LET rev_time == fromisoformat(rev.timestamp) IN
         IF Truthy(start_datetime) /\ ~ParseOk(start_datetime) THEN "raise"
         ELSE IF Truthy(start_datetime)
                 /\ ~Comparable(rev_time, fromisoformat(start_datetime)) THEN "raise"
         ELSE IF Truthy(start_datetime)
                 /\ rev_time.secs < fromisoformat(start_datetime).secs THEN "skip"
         ELSE IF Truthy(end_datetime) /\ ~ParseOk(end_datetime) THEN "raise"
         ELSE IF Truthy(end_datetime)
                 /\ ~Comparable(rev_time, fromisoformat(end_datetime)) THEN "raise"
         ELSE IF Truthy(end_datetime)
                 /\ rev_time.secs > fromisoformat(end_datetime).secs THEN "skip"
         ELSE "keep"

\* all_revisions after the loop: a kept record has gained 'parsed_timestamp'
RECURSIVE MarkParsed(_, _, _)
MarkParsed(revs, start_datetime, end_datetime) ==
    IF Len(revs) = 0 THEN <<>>
    ELSE LET rev == Head(revs) IN
         <<IF FilterOne(rev, start_datetime, end_datetime) = "keep"
           THEN Put(rev, "parsed_timestamp", fromisoformat(rev.timestamp))
           ELSE rev>>
         \o MarkParsed(Tail(revs), start_datetime, end_datetime)

\* variant: the first record that raises ends the loop
RECURSIVE FilterRevisionsMutAbort(_, _, _)
FilterRevisionsMutAbort(revs, start_datetime, end_datetime) ==
    IF Len(revs) = 0 THEN <<>>
    ELSE LET rev == Head(revs)
             outcome == FilterOne(rev, start_datetime, end_datetime)
         IN  IF outcome = "raise" THEN <<>>
             ELSE (IF outcome = "keep"
                   THEN <<Put(rev, "parsed_timestamp", fromisoformat(rev.timestamp))>>
                   ELSE <<>>)
                  \o FilterRevisionsMutAbort(Tail(revs), start_datetime, end_datetime)

\* filtered_revisions after the loop: the kept records, in the order met
RECURSIVE FilterRevisions(_, _, _)
FilterRevisions(revs, start_datetime, end_datetime) ==
    IF Len(revs) = 0 THEN <<>>
    ELSE LET rev == Head(revs) IN
         (IF FilterOne(rev, start_datetime, end_datetime) = "keep"
          THEN <<Put(rev, "parsed_timestamp", fromisoformat(rev.timestamp))>>
          ELSE <<>>)
         \o FilterRevisions(Tail(revs), start_datetime, end_datetime)

-----------------------------------------------------------------------------
(* Time windows: the grouping loop of analyze_edit_activity *)

\* variant: an unrecognised window_size is bucketed by month
WindowKeyMutFallbackMonth(timestamp, window_size) ==
    CASE window_size = "day" -> StrfDay(timestamp)
      [] window_size = "week" -> StrfWeek(MinusDays(timestamp, Weekday(timestamp)))
      [] window_size = "month" -> StrfMonth(timestamp)
      [] OTHER -> StrfMonth(timestamp)

\* the window_key of a revision: the if/elif chain of the grouping loop
WindowKey(timestamp, window_size) ==
    CASE window_size = "day" -> StrfDay(timestamp)
      [] window_size = "week" -> StrfWeek(MinusDays(timestamp, Weekday(timestamp)))
      [] window_size = "month" -> StrfMonth(timestamp)
      [] OTHER -> StrfDay(timestamp)

\* position of the window with this key in the dict (0 when absent)
WindowIndex(grouped, key) ==
    IF \E i \in 1..Len(grouped) : grouped[i].window = key
    THEN CHOOSE i \in 1..Len(grouped) : grouped[i].window = key
    ELSE 0

\* variant: edit_count is set to 1 where it should be incremented
AddToWindowMutReset(grouped, rev, window_size) ==
    LET key == WindowKey(rev.parsed_timestamp, window_size)
        i == WindowIndex(grouped, key)
        fresh == [window |-> key, edit_count |-> 0, editors |-> {}, revisions |-> <<>>]
        g == IF i = 0 THEN Append(grouped, fresh) ELSE grouped
        j == IF i = 0 THEN Len(g) ELSE i
    IN  [g EXCEPT ![j] = [window |-> key,
                          edit_count |-> 1,
                          editors |-> g[j].editors \cup {Get(rev, "user", "Unknown")},
                          revisions |-> Append(g[j].revisions, rev)]]

\* one iteration: the defaultdict creates the window on first use, then the
\* revision is counted, its editor added and the revision appended
AddToWindow(grouped, rev, window_size) ==
    LET key == WindowKey(rev.parsed_timestamp, window_size)
        i == WindowIndex(grouped, key)
        fresh == [window |-> key, edit_count |-> 0, editors |-> {}, revisions |-> <<>>]
        g == IF i = 0 THEN Append(grouped, fresh) ELSE grouped
        j == IF i = 0 THEN Len(g) ELSE i
    IN  [g EXCEPT ![j] = [window |-> key,
                          edit_count |-> g[j].edit_count + 1,
                          editors |-> g[j].editors \cup {Get(rev, "user", "Unknown")},
                          revisions |-> Append(g[j].revisions, rev)]]

\* grouped_activity, as the sequence of its items in insertion order
RECURSIVE GroupActivity(_, _, _)
GroupActivity(filtered, window_size, grouped) ==
    IF Len(filtered) = 0 THEN grouped
    ELSE GroupActivity(Tail(filtered), window_size,
                       AddToWindow(grouped, Head(filtered), window_size))

-----------------------------------------------------------------------------
(* Exact fractions for the significance score *)

Frac(n, d) ==
    LET g == Gcd(Abs(n), d) IN [n |-> n \div g, d |-> d \div g]

FracAdd(a, b) == Frac(a.n * b.d + b.n * a.d, a.d * b.d)

FracMul(a, b) == Frac(a.n * b.n, a.d * b.d)

FracLeq(a, b) == a.n * b.d <= b.n * a.d

FracMin(a, b) == IF FracLeq(a, b) THEN a ELSE b

FracMax(a, b) == IF FracLeq(b, a) THEN a ELSE b

FracOne == Frac(1, 1)

FracZero == Frac(0, 1)

-----------------------------------------------------------------------------
(* Statistics: statistics.mean, statistics.stdev and the z-scores, exactly *)

SumSq(xs) == SumSeq([i \in 1..Len(xs) |-> xs[i] * xs[i]])

\* statistics.mean(xs), an exact fraction
Mean(xs) == Frac(SumSeq(xs), Len(xs))

\* a real number sgn * sqrt(num / den), den > 0
Root(sgn, num, den) ==
    IF num = 0 \/ sgn = 0 THEN [sgn |-> 0, num |-> 0, den |-> 1]
    ELSE LET g == Gcd(num, den) IN
         [sgn |-> sgn, num |-> num \div g, den |-> den \div g]

Zero == Root(0, 0, 1)

Sign(x) == IF x > 0 THEN 1 ELSE IF x < 0 THEN 0 - 1 ELSE 0

\* n * sum(x^2) - sum(x)^2, which is n * (the sum of squared deviations)
SquaredDeviations(xs) == Len(xs) * SumSq(xs) - SumSeq(xs) * SumSeq(xs)

\* variant: the population standard deviation, dividing by n
StdevMutPopulation(xs) ==
    IF Len(xs) > 1
    THEN Root(1, SquaredDeviations(xs), Len(xs) * Len(xs))
    ELSE Zero

\* statistics.stdev(xs) if len(xs) > 1 else 0: the sample standard deviation,
\* the square root of (sum of squared deviations) / (n - 1)
Stdev(xs) ==
    IF Len(xs) > 1
    THEN Root(1, SquaredDeviations(xs), Len(xs) * (Len(xs) - 1))
    ELSE Zero

\* variant: the count itself where 0 belongs when stdev is 0
ZScoreMutFallback(count, mean, stdev) ==
    IF stdev.sgn > 0
    THEN Root(Sign(count * mean.d - mean.n),
              (count * mean.d - mean.n) * (count * mean.d - mean.n) * stdev.den,
              mean.d * mean.d * stdev.num)
    ELSE Root(1, count * count, 1)

\* (count - mean) / stdev if stdev > 0 else 0
ZScore(count, mean, stdev) ==
    IF stdev.sgn > 0
    THEN Root(Sign(count * mean.d - mean.n),
              (count * mean.d - mean.n) * (count * mean.d - mean.n) * stdev.den,
              mean.d * mean.d * stdev.num)
    ELSE Zero

\* a >= b for two such reals
RootGeq(a, b) ==
    CASE a.sgn > b.sgn -> TRUE
      [] a.sgn < b.sgn -> FALSE
      [] a.sgn = 0 -> TRUE
      [] a.sgn = 1 -> a.num * b.den >= b.num * a.den
      [] OTHER -> a.num * b.den <= b.num * a.den

\* the rational p/q (q > 0) as such a real
RootOfRatio(t) == Root(Sign(t.p), t.p * t.p, t.q * t.q)

\* max(a, b) of Python: b only when b > a
ZMax(a, b) == IF RootGeq(a, b) THEN a ELSE b

\* floor(sqrt(m)) by bisection between lo and hi
RECURSIVE ISqrtIn(_, _, _)
ISqrtIn(m, lo, hi) ==
    IF lo >= hi THEN lo
    ELSE LET mid == (lo + hi + 1) \div 2 IN
         IF mid * mid <= m THEN ISqrtIn(m, mid, hi) ELSE ISqrtIn(m, lo, mid - 1)

ISqrt(m) == ISqrtIn(m, 0, Min2(m, 40000))

\* round(z, 2) in hundredths: the nearest hundredth, ties to even
Round2Root(z) ==
    LET a == ISqrt((10000 * z.num) \div z.den)
        lhs == 40000 * z.num
        rhs == (2 * a + 1) * (2 * a + 1) * z.den
        up == lhs > rhs \/ (lhs = rhs /\ a % 2 = 1)
    IN  z.sgn * (IF up THEN a + 1 ELSE a)

\* round(p / q, 2) in hundredths, for p >= 0 and q > 0
Round2Frac(f) ==
    LET a == (100 * f.n) \div f.d
        rem2 == 2 * ((100 * f.n) % f.d)
        up == rem2 > f.d \/ (rem2 = f.d /\ a % 2 = 1)
    IN  IF up THEN a + 1 ELSE a

SeqMin(xs) == CHOOSE m \in Range(xs) : \A x \in Range(xs) : m <= x

SeqMax(xs) == CHOOSE m \in Range(xs) : \A x \in Range(xs) : m >= x

-----------------------------------------------------------------------------
(* analyze_edit_activity *)

Title == "Test Article"

\* variant: the exception leaves the method
CaughtMutReraise(message) == [raised |-> TRUE, error |-> message]

\* the except clause at the end of both analyses: the exception's message
\* is returned in a dict
Caught(message) == [title |-> Title, exists |-> FALSE, error |-> message]

AnalysisPeriod(start_datetime, end_datetime) ==
    <<IF Truthy(start_datetime) THEN start_datetime ELSE [k |-> "str", text |-> "beginning"],
      IF Truthy(end_datetime) THEN end_datetime ELSE [k |-> "str", text |-> "now"]>>

EditCounts(grouped) == [i \in 1..Len(grouped) |-> grouped[i].edit_count]

EditorCounts(grouped) == [i \in 1..Len(grouped) |-> Cardinality(grouped[i].editors)]

\* variant: 2 windows are taken to be enough
InsufficientDataMutTwo(edit_counts) == Len(edit_counts) < 2

\* len(edit_counts) < 3: too few windows for statistics
InsufficientData(edit_counts) == Len(edit_counts) < 3

\* the z-scores of one window; loc holds the means and standard deviations
EditZ(loc, data) == ZScore(data.edit_count, loc.edit_mean, loc.edit_stdev)

EditorZ(loc, data) == ZScore(Cardinality(data.editors), loc.editor_mean, loc.editor_stdev)

\* variant: the test is two-sided, on |z|
IsSpikeMutAbs(edit_z_score, editor_z_score, z_threshold) ==
    \/ RootGeq([edit_z_score EXCEPT !.sgn = Abs(@)], RootOfRatio(z_threshold))
    \/ RootGeq([editor_z_score EXCEPT !.sgn = Abs(@)], RootOfRatio(z_threshold))

\* variant: the comparison is turned round, z <= z_threshold
IsSpikeMutFlipped(edit_z_score, editor_z_score, z_threshold) ==
    \/ RootGeq(RootOfRatio(z_threshold), edit_z_score)
    \/ RootGeq(RootOfRatio(z_threshold), editor_z_score)

\* variant: the test is strict, z > z_threshold
IsSpikeMutStrict(edit_z_score, editor_z_score, z_threshold) ==
    \/ ~RootGeq(RootOfRatio(z_threshold), edit_z_score)
    \/ ~RootGeq(RootOfRatio(z_threshold), editor_z_score)

\* edit_z_score >= z_threshold or editor_z_score >= z_threshold
IsSpike(edit_z_score, editor_z_score, z_threshold) ==
    \/ RootGeq(edit_z_score, RootOfRatio(z_threshold))
    \/ RootGeq(editor_z_score, RootOfRatio(z_threshold))

HighZ == 3

\* variant: the severity follows |z|
SignificanceOfMutAbs(edit_z_score, editor_z_score) ==
    IF RootGeq(ZMax([edit_z_score EXCEPT !.sgn = Abs(@)],
                    [editor_z_score EXCEPT !.sgn = Abs(@)]),
               RootOfRatio([p |-> HighZ, q |-> 1]))
    THEN "high" ELSE "moderate"

\* 'high' if max(edit_z_score, editor_z_score) >= 3 else 'moderate'
SignificanceOf(edit_z_score, editor_z_score) ==
    IF RootGeq(ZMax(edit_z_score, editor_z_score), RootOfRatio([p |-> HighZ, q |-> 1]))
    THEN "high" ELSE "moderate"

SampleRevisions == 5

SpikeEntry(loc, data) ==
    [window |-> data.window,
     edit_count |-> data.edit_count,
     editor_count |-> Cardinality(data.editors),
     edit_z_score |-> Round2Root(EditZ(loc, data)),
     editor_z_score |-> Round2Root(EditorZ(loc, data)),
     significance |-> SignificanceOf(EditZ(loc, data), EditorZ(loc, data)),
     editors |-> data.editors,
     sample_revisions |-> SubSeq(data.revisions, 1, Min2(SampleRevisions, Len(data.revisions)))]

\* the detection loop over grouped_activity.items()
RECURSIVE DetectSpikes(_, _, _)
DetectSpikes(loc, i, z_threshold) ==
    IF i > Len(loc.grouped_activity) THEN <<>>
    ELSE (IF IsSpike(EditZ(loc, loc.grouped_activity[i]),
                     EditorZ(loc, loc.grouped_activity[i]), z_threshold)
          THEN <<SpikeEntry(loc, loc.grouped_activity[i])>> ELSE <<>>)
         \o DetectSpikes(loc, i + 1, z_threshold)

\* the sort key: max(x['edit_z_score'], x['editor_z_score'])
SpikeKey(x) == Max2(x.edit_z_score, x.editor_z_score)

\* list.sort(key = ..., reverse = True) on <<key, item>> pairs: descending
\* by key, and stable
RECURSIVE InsertDesc(_, _)
InsertDesc(sorted, x) ==
    IF Len(sorted) = 0 THEN <<x>>
    ELSE IF Head(sorted)[1] >= x[1]
         THEN <<Head(sorted)>> \o InsertDesc(Tail(sorted), x)
         ELSE <<x>> \o sorted

RECURSIVE SortDesc(_, _)
SortDesc(xs, sorted) ==
    IF Len(xs) = 0 THEN sorted
    ELSE SortDesc(Tail(xs), InsertDesc(sorted, Head(xs)))

\* variant: the list is left in detection order
SortSpikesMutNone(spikes) == spikes

SortSpikes(spikes) ==
    LET sorted == SortDesc([i \in 1..Len(spikes) |-> <<SpikeKey(spikes[i]), spikes[i]>>], <<>>)
    IN  [i \in 1..Len(sorted) |-> sorted[i][2]]

\* the locals before the fetch has returned revisions
NoLocals == [all_revisions |-> <<>>, filtered_revisions |-> <<>>]

\* the locals after the filter and grouping loops
ActivityLocals(revisions_result, start_datetime, end_datetime, window_size) ==
    IF ~Fetched(revisions_result) THEN NoLocals
    ELSE
    LET all_revisions == MarkParsed(revisions_result.revisions, start_datetime, end_datetime)
        filtered_revisions == FilterRevisions(revisions_result.revisions, start_datetime,
                                              end_datetime)
        grouped_activity == GroupActivity(filtered_revisions, window_size, <<>>)
    IN  [all_revisions |-> all_revisions,
         filtered_revisions |-> filtered_revisions,
         grouped_activity |-> grouped_activity,
         edit_counts |-> EditCounts(grouped_activity),
         editor_counts |-> EditorCounts(grouped_activity)]

\* the locals the statistical calculations add, past the early return
WithStatistics(loc) ==
    IF "edit_counts" \notin DOMAIN loc \/ InsufficientData(loc.edit_counts) THEN loc
    ELSE [k \in (DOMAIN loc) \cup {"edit_mean", "edit_stdev", "editor_mean", "editor_stdev"} |->
            CASE k = "edit_mean" -> Mean(loc.edit_counts)
              [] k = "edit_stdev" -> Stdev(loc.edit_counts)
              [] k = "editor_mean" -> Mean(loc.editor_counts)
              [] k = "editor_stdev" -> Stdev(loc.editor_counts)
              [] OTHER -> loc[k]]

\* the returned dict, given the result of the fetch and the locals
analyze_edit_activity(revisions_result, loc, start_datetime, end_datetime, window_size, z_threshold) ==
    IF Raised(revisions_result) THEN Caught(revisions_result.error)
    ELSE IF ~revisions_result.exists
    THEN [title |-> Title, exists |-> FALSE, error |-> SourceError(revisions_result)]
    ELSE IF InsufficientData(loc.edit_counts)
    THEN [title |-> Title,
          analysis_period |-> AnalysisPeriod(start_datetime, end_datetime),
          window_size |-> window_size,
          total_windows |-> Len(loc.grouped_activity),
          error |-> "Insufficient data for statistical analysis (need at least 3 time windows)"]
    ELSE
    LET spikes == SortSpikes(DetectSpikes(loc, 1, z_threshold)) IN
    [title |-> Title,
     analysis_period |-> AnalysisPeriod(start_datetime, end_datetime),
     window_size |-> window_size,
     z_threshold |-> z_threshold,
     statistics |->
        [total_windows |-> Len(loc.grouped_activity),
         total_revisions_analyzed |-> Len(loc.filtered_revisions),
         edit_statistics |->
            [mean |-> Round2Frac(loc.edit_mean), stdev |-> Round2Root(loc.edit_stdev),
             min |-> SeqMin(loc.edit_counts), max |-> SeqMax(loc.edit_counts)],
         editor_statistics |->
            [mean |-> Round2Frac(loc.editor_mean), stdev |-> Round2Root(loc.editor_stdev),
             min |-> SeqMin(loc.editor_counts), max |-> SeqMax(loc.editor_counts)]],
     spikes_detected |-> Len(spikes),
     spikes |-> spikes,
     exists |-> TRUE]

-----------------------------------------------------------------------------
(* Comments: strings as sequences of characters *)

Upper == <<"A", "B", "C", "D", "E", "F", "G", "H", "I", "J", "K", "L", "M",
           "N", "O", "P", "Q", "R", "S", "T", "U", "V", "W", "X", "Y", "Z">>

LowerLetters == <<"a", "b", "c", "d", "e", "f", "g", "h", "i", "j", "k", "l", "m",
                  "n", "o", "p", "q", "r", "s", "t", "u", "v", "w", "x", "y", "z">>

LowerChar(c) ==
    IF \E i \in 1..26 : Upper[i] = c
    THEN LowerLetters[CHOOSE i \in 1..26 : Upper[i] = c]
    ELSE c

\* str.lower()
Lower(str) == [i \in 1..Len(str) |-> LowerChar(str[i])]

\* pattern in str
Contains(str, pattern) ==
    \E i \in 0..(Len(str) - Len(pattern)) :
        \A j \in 1..Len(pattern) : str[i + j] = pattern[j]

discussion_patterns ==
    << <<"t","a","l","k"," ","p","a","g","e">>,
       <<"d","i","s","c","u","s","s">>,
       <<"s","e","e"," ","t","a","l","k">>,
       <<"t","a","l","k",":">>,
       <<"c","o","n","s","e","n","s","u","s">>,
       <<"d","i","s","p","u","t","e">>,
       <<"c","o","n","t","r","o","v","e","r","s","i","a","l">>,
       <<"r","e","v","e","r","t">>,
       <<"v","a","n","d","a","l","i","s","m">>,
       <<"r","v">> >>

\* sum(1 for pattern in discussion_patterns if pattern in comment)
PatternsFound(comment) ==
    Cardinality({i \in 1..Len(discussion_patterns) : Contains(comment, discussion_patterns[i])})

-----------------------------------------------------------------------------
(* The significance score and its sub-scores *)

\* (a - b).total_seconds() magnitude between two parsed datetimes
TimeDiff(a, b) == Abs(a.secs - b.secs)

RevertWindow == 5

RevertSeconds == 3600

RevertBytes == 50

\* variant: a candidate exactly an hour away is accepted, time_diff <= 3600
RECURSIVE RevertScanMutInclusive(_, _, _, _)
RevertScanMutInclusive(revision, all_revisions, i, index) ==
    IF i >= index THEN FracZero
    ELSE IF i < 0 \/ i >= Len(all_revisions)
    THEN RevertScanMutInclusive(revision, all_revisions, i + 1, index)
    ELSE LET next_rev == all_revisions[i + 1] IN
         IF "parsed_timestamp" \notin DOMAIN next_rev
            \/ "parsed_timestamp" \notin DOMAIN revision
         THEN RevertScanMutInclusive(revision, all_revisions, i + 1, index)
         ELSE LET time_diff == TimeDiff(next_rev.parsed_timestamp, revision.parsed_timestamp)
                  size_diff == Abs(Get(next_rev, "size", 0) - Get(revision, "size", 0))
              IN  IF time_diff <= RevertSeconds /\ size_diff < RevertBytes
                  THEN FracMax(FracZero, Frac(RevertSeconds - time_diff, RevertSeconds))
                  ELSE RevertScanMutInclusive(revision, all_revisions, i + 1, index)

\* the loop of _calculate_revert_score from Python index i up to index - 1
RECURSIVE RevertScan(_, _, _, _)
RevertScan(revision, all_revisions, i, index) ==
    IF i >= index THEN FracZero
    ELSE IF i < 0 \/ i >= Len(all_revisions)
    THEN RevertScan(revision, all_revisions, i + 1, index)
    ELSE LET next_rev == all_revisions[i + 1] IN
         IF "parsed_timestamp" \notin DOMAIN next_rev
            \/ "parsed_timestamp" \notin DOMAIN revision
         THEN RevertScan(revision, all_revisions, i + 1, index)
         ELSE LET time_diff == TimeDiff(next_rev.parsed_timestamp, revision.parsed_timestamp)
                  size_diff == Abs(Get(next_rev, "size", 0) - Get(revision, "size", 0))
              IN  IF time_diff < RevertSeconds /\ size_diff < RevertBytes
                  THEN FracMax(FracZero, Frac(RevertSeconds - time_diff, RevertSeconds))
                  ELSE RevertScan(revision, all_revisions, i + 1, index)

\* variant: the scan runs from index - 1 down to index - 5, nearest first
RECURSIVE RevertScanDown(_, _, _, _)
RevertScanDown(revision, all_revisions, i, low) ==
    IF i < low THEN FracZero
    ELSE IF i < 0 \/ i >= Len(all_revisions)
    THEN RevertScanDown(revision, all_revisions, i - 1, low)
    ELSE LET next_rev == all_revisions[i + 1] IN
         IF "parsed_timestamp" \notin DOMAIN next_rev
            \/ "parsed_timestamp" \notin DOMAIN revision
         THEN RevertScanDown(revision, all_revisions, i - 1, low)
         ELSE LET time_diff == TimeDiff(next_rev.parsed_timestamp, revision.parsed_timestamp)
                  size_diff == Abs(Get(next_rev, "size", 0) - Get(revision, "size", 0))
              IN  IF time_diff < RevertSeconds /\ size_diff < RevertBytes
                  THEN FracMax(FracZero, Frac(RevertSeconds - time_diff, RevertSeconds))
                  ELSE RevertScanDown(revision, all_revisions, i - 1, low)

_calculate_revert_scoreMutNearest(revision, all_revisions, index) ==
    RevertScanDown(revision, all_revisions, index - 1, index - RevertWindow)

_calculate_revert_score(revision, all_revisions, index) ==
    RevertScan(revision, all_revisions, index - RevertWindow, index)

EditWarEdits == 20

\* variant: a revision exactly a day away is not counted, time_diff < 86400
_calculate_edit_war_scoreMutStrict(revision, all_revisions, index) ==
    IF "parsed_timestamp" \notin DOMAIN revision THEN FracZero
    ELSE LET rapid_edits ==
                 Cardinality({i \in 1..Len(all_revisions) :
                     /\ "parsed_timestamp" \in DOMAIN all_revisions[i]
                     /\ TimeDiff(all_revisions[i].parsed_timestamp,
                                 revision.parsed_timestamp) < SecondsPerDay})
         IN  FracMin(Frac(rapid_edits, EditWarEdits), FracOne)

_calculate_edit_war_score(revision, all_revisions, index) ==
    IF "parsed_timestamp" \notin DOMAIN revision THEN FracZero
    ELSE LET rapid_edits ==
                 Cardinality({i \in 1..Len(all_revisions) :
                     /\ "parsed_timestamp" \in DOMAIN all_revisions[i]
                     /\ TimeDiff(all_revisions[i].parsed_timestamp,
                                 revision.parsed_timestamp) <= SecondsPerDay})
         IN  FracMin(Frac(rapid_edits, EditWarEdits), FracOne)

\* min(size_change / max(article_size * 0.1, 100), 1.0)
NormalizedSizeChange(size_change, article_size) ==
    FracMin(Frac(size_change * 10, Max2(article_size, 1000)), FracOne)

\* variant: the ratio is turned over, user_edits / 5
ExperienceFactorMutInverse(user_edits) == FracMin(FracOne, Frac(Max2(user_edits, 1), 5))

\* min(1.0, 5.0 / max(user_edits, 1))
ExperienceFactor(user_edits) == FracMin(FracOne, Frac(5, Max2(user_edits, 1)))

DiscussionScore(comment) == FracMin(Frac(PatternsFound(Lower(comment)), 5), FracOne)

\* the weights, in hundredths
WeightSize == 30

WeightRevert == 25

WeightExperience == 20

WeightDiscussion == 15

WeightEditWar == 10

Weighted(w, x) == FracMul(Frac(w, 100), x)

\* variant: the signed sizediff, the abs() forgotten
SizeChangeMutSigned(revision) == Get(revision, "sizediff", IntOf(0)).v

\* size_change = abs(revision.get('sizediff', 0)), for a sizediff that is a number
SizeChange(revision) == Abs(Get(revision, "sizediff", IntOf(0)).v)

\* the locals of _calculate_significance_score when it returns, or the
\* exception abs(None) raises on its first statement
ScoreLocals(revision, all_revisions, index, article_size, user_edit_counts) ==
    IF IsNone(Get(revision, "sizediff", IntOf(0)))
    THEN [raised |-> TRUE]
    ELSE [raised |-> FALSE,
          size_change |-> SizeChange(revision),
          normalized_size_change |-> NormalizedSizeChange(SizeChange(revision), article_size),
          revert_score |-> _calculate_revert_score(revision, all_revisions, index),
          user_edits |-> Get(user_edit_counts, Get(revision, "user", ""), 1),
          experience_factor |->
              ExperienceFactor(Get(user_edit_counts, Get(revision, "user", ""), 1)),
          discussion_score |-> DiscussionScore(Get(revision, "comment", <<>>)),
          edit_war_score |-> _calculate_edit_war_score(revision, all_revisions, index)]

\* variant: the edit-war term is weighted like the discussion term
WeightedSumMutEditWar(loc) ==
    FracAdd(Weighted(WeightSize, loc.normalized_size_change),
    FracAdd(Weighted(WeightRevert, loc.revert_score),
    FracAdd(Weighted(WeightExperience, loc.experience_factor),
    FracAdd(Weighted(WeightDiscussion, loc.discussion_score),
            Weighted(WeightDiscussion, loc.edit_war_score)))))

\* score after the five  score += weight * sub_score  statements
WeightedSum(loc) ==
    FracAdd(Weighted(WeightSize, loc.normalized_size_change),
    FracAdd(Weighted(WeightRevert, loc.revert_score),
    FracAdd(Weighted(WeightExperience, loc.experience_factor),
    FracAdd(Weighted(WeightDiscussion, loc.discussion_score),
            Weighted(WeightEditWar, loc.edit_war_score)))))

\* the value returned for these locals, or the exception raised by abs(None)
ScoreOf(loc) ==
    IF loc.raised
    THEN [raised |-> TRUE, error |-> "bad operand type for abs(): 'NoneType'"]
    ELSE [raised |-> FALSE, value |-> FracMin(WeightedSum(loc), FracOne)]

_calculate_significance_score(revision, all_revisions, index, article_size, user_edit_counts) ==
    ScoreOf(ScoreLocals(revision, all_revisions, index, article_size, user_edit_counts))

\* user_edit_counts as get_significant_revisions builds it
UserEditCounts(filtered_revisions) ==
    LET users == {filtered_revisions[i].user :
                    i \in {j \in 1..Len(filtered_revisions) :
                              /\ "user" \in DOMAIN filtered_revisions[j]
                              /\ filtered_revisions[j].user # ""}}
    IN  [u \in users |->
            Cardinality({j \in 1..Len(filtered_revisions) :
                            /\ "user" \in DOMAIN filtered_revisions[j]
                            /\ filtered_revisions[j].user = u})]

-----------------------------------------------------------------------------
(* get_significant_revisions *)

\* round(p / q, 3) in thousandths, for p >= 0 and q > 0: ties to even
Round3Frac(f) ==
    LET a == (1000 * f.n) \div f.d
        rem2 == 2 * ((1000 * f.n) % f.d)
        up == rem2 > f.d \/ (rem2 = f.d /\ a % 2 = 1)
    IN  IF up THEN a + 1 ELSE a

\* the keywords of the has_discussion_keywords flag
factor_keywords ==
    << <<"t","a","l","k">>,
       <<"d","i","s","c","u","s","s">>,
       <<"r","e","v","e","r","t">>,
       <<"d","i","s","p","u","t","e">> >>

_get_significance_factors(revision, article_size, user_edit_counts) ==
    [size_change_bytes |-> Get(revision, "sizediff", IntOf(0)),
     normalized_size_impact |-> NormalizedSizeChange(SizeChange(revision), article_size),
     user_experience_level |-> Get(user_edit_counts, Get(revision, "user", ""), 1),
     has_discussion_keywords |->
         \E i \in 1..Len(factor_keywords) :
             Contains(Lower(Get(revision, "comment", <<>>)), factor_keywords[i]),
     edit_comment |-> Get(revision, "comment", <<>>),
     timestamp |-> Get(revision, "timestamp", None),
     user |-> Get(revision, "user", "")]

\* variant: fewer than 3 revisions count as too few
TooFewRevisionsMutThree(filtered_revisions) == Len(filtered_revisions) < 3

\* len(filtered_revisions) < 2
TooFewRevisions(filtered_revisions) == Len(filtered_revisions) < 2

\* the scoring loop from Python index i on: the locals of each call of
\* _calculate_significance_score, up to and including the first that raises
RECURSIVE ScoreLoop(_, _, _, _)
ScoreLoop(filtered_revisions, i, current_size, user_edit_counts) ==
    IF i >= Len(filtered_revisions) THEN <<>>
    ELSE LET loc == ScoreLocals(filtered_revisions[i + 1], filtered_revisions, i,
                                current_size, user_edit_counts)
         IN  IF loc.raised THEN <<loc>>
             ELSE <<loc>> \o ScoreLoop(filtered_revisions, i + 1, current_size,
                                       user_edit_counts)

\* significance_score >= min_significance, min_significance a ratio p/q, q > 0
PassesThreshold(score, min_significance) ==
    score.n * min_significance.q >= min_significance.p * score.d

\* the entry appended to scored_revisions
ScoredEntry(rev, score, current_size, user_edit_counts) ==
    Put(Put(rev, "significance_score", Round3Frac(score)),
        "significance_factors", _get_significance_factors(rev, current_size, user_edit_counts))

\* scored_revisions after the loop, from position i (1-based) on
RECURSIVE ScoredRevisions(_, _, _)
ScoredRevisions(loc, i, min_significance) ==
    IF i > Len(loc.score_locals) THEN <<>>
    ELSE (IF PassesThreshold(ScoreOf(loc.score_locals[i]).value, min_significance)
          THEN <<ScoredEntry(loc.filtered_revisions[i], ScoreOf(loc.score_locals[i]).value,
                             loc.current_size, loc.user_edit_counts)>>
          ELSE <<>>)
         \o ScoredRevisions(loc, i + 1, min_significance)

\* variant: equal scores come out in reverse order
SortScoredMutUnstable(scored_revisions) ==
    LET reversed == [i \in 1..Len(scored_revisions) |->
                        scored_revisions[Len(scored_revisions) + 1 - i]]
        sorted == SortDesc([i \in 1..Len(reversed) |->
                               <<reversed[i].significance_score, reversed[i]>>], <<>>)
    IN  [i \in 1..Len(sorted) |-> sorted[i][2]]

\* scored_revisions.sort(key = significance_score, reverse = True)
SortScored(scored_revisions) ==
    LET sorted == SortDesc([i \in 1..Len(scored_revisions) |->
                               <<scored_revisions[i].significance_score,
                                 scored_revisions[i]>>], <<>>)
    IN  [i \in 1..Len(sorted) |-> sorted[i][2]]

\* xs[:limit] of Python: a negative limit drops that many entries at the end
SlicePrefix(xs, limit) ==
    IF limit >= 0 THEN SubSeq(xs, 1, Min2(limit, Len(xs)))
    ELSE SubSeq(xs, 1, Max2(Len(xs) + limit, 0))

\* the locals after the filter loop
FilterLocals(revisions_result, start_datetime, end_datetime) ==
    IF ~Fetched(revisions_result) THEN NoLocals
    ELSE
    LET all_revisions == MarkParsed(revisions_result.revisions, start_datetime, end_datetime)
    IN  [all_revisions |-> all_revisions,
         filtered_revisions |-> FilterRevisions(revisions_result.revisions, start_datetime,
                                                end_datetime)]

\* with 2 or more filtered revisions: the locals after the counting loop
WithEditCounts(loc) ==
    IF TooFewRevisions(loc.filtered_revisions) THEN loc
    ELSE [all_revisions |-> loc.all_revisions,
          filtered_revisions |-> loc.filtered_revisions,
          current_size |-> Get(loc.filtered_revisions[1], "size", 1000),
          user_edit_counts |-> UserEditCounts(loc.filtered_revisions)]

\* and after the scoring loop
WithScores(loc) ==
    IF TooFewRevisions(loc.filtered_revisions) THEN loc
    ELSE [all_revisions |-> loc.all_revisions,
          filtered_revisions |-> loc.filtered_revisions,
          current_size |-> loc.current_size,
          user_edit_counts |-> loc.user_edit_counts,
          score_locals |-> ScoreLoop(loc.filtered_revisions, 0, loc.current_size,
                                     loc.user_edit_counts)]

get_significant_revisions(revisions_result, loc, start_datetime, end_datetime, limit, min_significance) ==
    IF Raised(revisions_result) THEN Caught(revisions_result.error)
    ELSE IF ~revisions_result.exists
    THEN [title |-> Title, exists |-> FALSE, error |-> SourceError(revisions_result)]
    ELSE IF TooFewRevisions(loc.filtered_revisions)
    THEN [title |-> Title,
          analysis_period |-> AnalysisPeriod(start_datetime, end_datetime),
          error |-> "Insufficient revision data for significance analysis"]
    ELSE IF loc.score_locals[Len(loc.score_locals)].raised
    THEN Caught(ScoreOf(loc.score_locals[Len(loc.score_locals)]).error)
    ELSE
    LET scored_revisions == SortScored(ScoredRevisions(loc, 1, min_significance)) IN
    [title |-> Title,
     analysis_period |-> AnalysisPeriod(start_datetime, end_datetime),
     total_revisions_analyzed |-> Len(loc.filtered_revisions),
     significant_revisions_found |-> Len(scored_revisions),
     min_significance_threshold |-> min_significance,
     top_revisions |-> SlicePrefix(scored_revisions, limit),
     exists |-> TRUE]

-----------------------------------------------------------------------------
(* The page history grows: an edit is saved *)

NoCall == [op |-> "none"]

NoResult == [k |-> "None"]

\* the instant of the newest revision (0 for an empty history)
LatestSecs(revs) == IF Len(revs) = 0 THEN 0 ELSE revs[1].saved

DayOfSecs(secs) == secs \div SecondsPerDay

\* the record the API returns for a revision; `saved` is the source's own
\* clock reading for the edit and is not part of the API record
NewRevision(revs, delta, user, size, comment) ==
    [revid |-> Len(revs) + 1,
     saved |-> LatestSecs(revs) + delta,
     timestamp |-> IsoZ(DayOfSecs(LatestSecs(revs) + delta),
                        (LatestSecs(revs) + delta) % SecondsPerDay),
     user |-> user,
     size |-> size,
     comment |-> comment]

SaveEdit(delta, user, size, comment) ==
    /\ revisions' = <<NewRevision(revisions, delta, user, size, comment)>> \o revisions
    /\ call' = NoCall
    /\ result' = NoResult
    /\ locals' = NoLocals
    /\ previous' = NoResult
    /\ UNCHANGED api

\* how many revisions of the history were saved on the day of the newest one
RECURSIVE EditsOnLatestDay(_)
EditsOnLatestDay(revs) ==
    IF Len(revs) = 0 THEN 0
    ELSE IF Len(revs) = 1 \/ DayOfSecs(revs[2].saved) # DayOfSecs(revs[1].saved) THEN 1
    ELSE 1 + EditsOnLatestDay(Tail(revs))

\* a call is made when the caller holds no result of an earlier one
CallAnalyzeEditActivity(start_datetime, end_datetime, window_size, z_threshold) ==
    /\ call = NoCall
    /\ call' = [op |-> "analyze_edit_activity",
                start_datetime |-> start_datetime, end_datetime |-> end_datetime,
                window_size |-> window_size, z_threshold |-> z_threshold]
    /\ \E revisions_result \in {FetchRevisions(revisions, api)} :
       \E loc \in {ActivityLocals(revisions_result, start_datetime, end_datetime, window_size)} :
          /\ locals' = WithStatistics(loc)
          /\ result' = analyze_edit_activity(revisions_result, locals', start_datetime,
                                             end_datetime, window_size, z_threshold)
    /\ UNCHANGED <<revisions, api, previous>>

\* the caller is done with the returned value
Discard ==
    /\ call # NoCall
    /\ call' = NoCall
    /\ result' = NoResult
    /\ locals' = NoLocals
    /\ previous' = NoResult
    /\ UNCHANGED <<revisions, api>>

Init ==
    /\ revisions = <<>>
    /\ api = "ok"
    /\ call = NoCall
    /\ result = NoResult
    /\ locals = NoLocals
    /\ previous = NoResult

-----------------------------------------------------------------------------
(* Spec: short histories, two editors, several thresholds and date bounds *)

Ratio(p, q) == [p |-> p, q |-> q]

Thresholds == {Ratio(0 - 1, 1), Ratio(0, 1), Ratio(1, 1), Ratio(3, 2)}

Edit ==
    /\ Len(revisions) < MaxRevs
    /\ \E delta \in {0, SecondsPerDay}, user \in {"User1", "User2"} :
          SaveEdit(delta, user, 1000, <<>>)

Analyze ==
    /\ Len(revisions) > 0
    /\ \E start_datetime \in {None, IsoZ(1, 0)}, window_size \in {"day", "hour"},
          z_threshold \in Thresholds :
          CallAnalyzeEditActivity(start_datetime, None, window_size, z_threshold)

Next == Edit \/ Analyze \/ Discard

Spec == Init /\ [][Next]_vars

-----------------------------------------------------------------------------
(* SpecLong: many days of one or two edits by one editor *)

EditLong ==
    /\ \E delta \in {0, SecondsPerDay} :
          /\ delta = 0 => Len(revisions) > 0 /\ EditsOnLatestDay(revisions) < 2
          /\ delta > 0 => DayOfSecs(LatestSecs(revisions)) < LongDays
          /\ SaveEdit(delta, "User1", 1000, <<>>)

AnalyzeLong ==
    /\ Len(revisions) > 0
    /\ \E z_threshold \in {Ratio(0, 1), Ratio(2, 1)} :
          CallAnalyzeEditActivity(None, None, "day", z_threshold)

NextLong == EditLong \/ AnalyzeLong \/ Discard

SpecLong == Init /\ [][NextLong]_vars

-----------------------------------------------------------------------------
(* SpecWeek: the seven-day scenario, up to ScenarioCap(d) edits on day d,  *)
(* the k-th edit of a day by the k-th editor                               *)

ScenarioCounts == <<1, 2, 1, 10, 1, 2, 1>>

Editors == <<"User1", "User2", "User3", "User4", "User5",
             "User6", "User7", "User8", "User9", "User10">>

EditWeek ==
    /\ \E delta \in {0, SecondsPerDay} :
          LET day == DayOfSecs(LatestSecs(revisions) + delta)
              k == IF delta = 0 THEN EditsOnLatestDay(revisions) + 1 ELSE 1
          IN  /\ delta = 0 => Len(revisions) > 0
              /\ day \in 1..Len(ScenarioCounts)
              /\ k <= ScenarioCounts[day]
              /\ SaveEdit(delta, Editors[k], 1000, <<>>)

AnalyzeWeek ==
    /\ Len(revisions) > 0
    /\ CallAnalyzeEditActivity(None, None, "day", Ratio(3, 2))

NextWeek == EditWeek \/ AnalyzeWeek \/ Discard

SpecWeek == Init /\ [][NextWeek]_vars

-----------------------------------------------------------------------------
(* SpecScore: _calculate_significance_score applied to the revisions of    *)
(* short histories with varied sizes, gaps, editors and comments           *)

MaxScoreRevs == 3

CommentRevert ==
    <<"R","e","v","e","r","t","e","d"," ","v","a","n","d","a","l","i","s","m",
      " ","-"," ","s","e","e"," ","t","a","l","k"," ","p","a","g","e">>

CallSignificanceScore(start_datetime, index, article_size, user_edit_counts) ==
    /\ call = NoCall
    /\ api = "ok"
    /\ \E loc \in {FilterLocals(get_page_revisions(revisions, api), start_datetime, None)},
          counts \in {user_edit_counts} :
          /\ index < Len(loc.filtered_revisions)
          /\ call' = [op |-> "_calculate_significance_score",
                      start_datetime |-> start_datetime, index |-> index,
                      article_size |-> article_size, user_edit_counts |-> counts]
          /\ locals' = [all_revisions |-> loc.all_revisions,
                        filtered_revisions |-> loc.filtered_revisions,
                        score |-> ScoreLocals(loc.filtered_revisions[index + 1],
                                              loc.filtered_revisions, index, article_size,
                                              counts)]
          /\ result' = ScoreOf(locals'.score)
    /\ UNCHANGED <<revisions, api, previous>>

EditScore ==
    /\ Len(revisions) < MaxScoreRevs
    /\ \E delta \in {1800, SecondsPerDay}, size \in {0, 1000, 1040},
          who \in {<<"User1", <<>> >>, <<"User2", CommentRevert>>} :
          SaveEdit(delta, who[1], size, who[2])

Score ==
    /\ \E start_datetime \in {None, IsoZ(0, 1800)}, index \in 0..(MaxScoreRevs - 1),
          article_size \in {0, 1000, 20000}, known \in BOOLEAN :
          CallSignificanceScore(start_datetime, index, article_size,
              IF known THEN UserEditCounts(revisions) ELSE <<>>)

NextScore == EditScore \/ Score \/ Discard

SpecScore == Init /\ [][NextScore]_vars

-----------------------------------------------------------------------------
(* Calls of get_significant_revisions and of the two sub-score functions   *)

CallGetSignificantRevisions(start_datetime, end_datetime, limit, min_significance) ==
    /\ call = NoCall
    /\ call' = [op |-> "get_significant_revisions",
                start_datetime |-> start_datetime, end_datetime |-> end_datetime,
                limit |-> limit, min_significance |-> min_significance]
    /\ \E revisions_result \in {FetchRevisions(revisions, api)} :
       \E filtered \in {FilterLocals(revisions_result, start_datetime, end_datetime)} :
       \E counted \in {WithEditCounts(filtered)} :
          /\ locals' = WithScores(counted)
          /\ result' = get_significant_revisions(revisions_result, locals', start_datetime,
                                                 end_datetime, limit, min_significance)
    /\ UNCHANGED <<revisions, api, previous>>

\* _calculate_revert_score on the index-th (0-based) revision of the fetched
\* and parsed history
CallRevertScore(index) ==
    /\ call = NoCall
    /\ api = "ok"
    /\ index < Len(revisions)
    /\ call' = [op |-> "_calculate_revert_score", index |-> index]
    /\ locals' = FilterLocals(get_page_revisions(revisions, api), None, None)
    /\ result' = [value |-> _calculate_revert_score(locals'.filtered_revisions[index + 1],
                                                    locals'.filtered_revisions, index)]
    /\ UNCHANGED <<revisions, api, previous>>

CallEditWarScore(index) ==
    /\ call = NoCall
    /\ api = "ok"
    /\ index < Len(revisions)
    /\ call' = [op |-> "_calculate_edit_war_score", index |-> index]
    /\ locals' = FilterLocals(get_page_revisions(revisions, api), None, None)
    /\ result' = [value |-> _calculate_edit_war_score(locals'.filtered_revisions[index + 1],
                                                      locals'.filtered_revisions, index)]
    /\ UNCHANGED <<revisions, api, previous>>

-----------------------------------------------------------------------------
(* SpecRank: get_significant_revisions and the score of single revisions   *)
(* on short histories: an edit follows half an hour after the last one,     *)
(* by User1 or as a revert by User2 that adds 40 bytes, or a day after it  *)

MaxRankRevs == 4

\* the instant one second into the second day
RankStart == IsoZ(1, 1)

EditRank ==
    /\ Len(revisions) < MaxRankRevs
    /\ \E how \in {<<1800, "User1", 1000, <<>> >>,
                     <<1800, "User2", 1040, CommentRevert>>,
                     <<SecondsPerDay, "User1", 1000, <<>> >>} :
          SaveEdit(how[1], how[2], how[3], how[4])

Rank ==
    /\ Len(revisions) > 0
    /\ \E start_datetime \in {None, RankStart}, limit \in {0 - 1, 0, 2, 50},
          min_significance \in {Ratio(0, 1), Ratio(1, 3), Ratio(1, 2)} :
          CallGetSignificantRevisions(start_datetime, None, limit, min_significance)

ScoreRank ==
    /\ Len(revisions) > 0
    /\ \E start_datetime \in {None, RankStart}, index \in 0..(MaxRankRevs - 1),
          article_size \in {0, 1000, 20000}, known \in BOOLEAN :
          CallSignificanceScore(start_datetime, index, article_size,
              IF known THEN UserEditCounts(revisions) ELSE <<>>)

NextRank == EditRank \/ Rank \/ ScoreRank \/ Discard

SpecRank == Init /\ [][NextRank]_vars

-----------------------------------------------------------------------------
(* SpecRevert: _calculate_revert_score on histories of up to 7 revisions;  *)
(* an edit follows 5 minutes after the last one, keeping the size or        *)
(* changing it by 50 bytes, or 55 minutes after it, keeping the size       *)

MaxRevertRevs == 7

LatestSize(revs) == IF Len(revs) = 0 THEN 1000 ELSE revs[1].size

EditRevert ==
    /\ Len(revisions) < MaxRevertRevs
    /\ \E how \in {<<300, 0>>, <<300, 50>>, <<3300, 0>>} :
          SaveEdit(how[1], "User1",
                   IF how[2] = 0 THEN LatestSize(revisions)
                   ELSE 2050 - LatestSize(revisions), <<>>)

RevertScore ==
    /\ Len(revisions) > 0
    /\ \E index \in 0..(MaxRevertRevs - 1) : CallRevertScore(index)

NextRevert == EditRevert \/ RevertScore \/ Discard

SpecRevert == Init /\ [][NextRevert]_vars

-----------------------------------------------------------------------------
(* SpecBurst: one editor; the first edits may lie a day apart, the later   *)
(* ones are saved in the same second                                        *)

MaxBurstRevs == 22

BurstLead == 2

EditBurst ==
    /\ Len(revisions) < MaxBurstRevs
    /\ \E delta \in {0, SecondsPerDay} :
          /\ delta = SecondsPerDay => Len(revisions) <= BurstLead
          /\ SaveEdit(delta, "User1", 1000, <<>>)

EditWar ==
    /\ Len(revisions) > 0
    /\ \E index \in 0..(MaxBurstRevs - 1) : CallEditWarScore(index)

ScoreBurst ==
    /\ Len(revisions) > 0
    /\ \E index \in 0..(MaxBurstRevs - 1), known \in BOOLEAN :
          CallSignificanceScore(None, index, 1000,
              IF known THEN UserEditCounts(revisions) ELSE <<>>)

NextBurst == EditBurst \/ EditWar \/ ScoreBurst \/ Discard

SpecBurst == Init /\ [][NextBurst]_vars

-----------------------------------------------------------------------------
(* A second call with the same arguments, made while the caller still      *)
(* holds the first result.  The source hands out the records it handed out *)
(* before, as the first call left them.                                    *)

Snapshot ==
    IF Fetched(FetchRevisions(revisions, api))
    THEN [exists |-> TRUE, revisions |-> locals.all_revisions]
    ELSE FetchRevisions(revisions, api)

RepeatAnalyzeEditActivity ==
    /\ call.op = "analyze_edit_activity"
    /\ previous = NoResult
    /\ previous' = result
    /\ \E revisions_result \in {Snapshot} :
       \E loc \in {ActivityLocals(revisions_result, call.start_datetime, call.end_datetime, call.window_size)} :
          /\ locals' = WithStatistics(loc)
          /\ result' = analyze_edit_activity(revisions_result, locals', call.start_datetime,
                                             call.end_datetime, call.window_size,
                                             call.z_threshold)
    /\ UNCHANGED <<revisions, api, call>>

RepeatGetSignificantRevisions ==
    /\ call.op = "get_significant_revisions"
    /\ previous = NoResult
    /\ previous' = result
    /\ \E revisions_result \in {Snapshot} :
       \E filtered \in {FilterLocals(revisions_result, call.start_datetime, call.end_datetime)} :
       \E counted \in {WithEditCounts(filtered)} :
          /\ locals' = WithScores(counted)
          /\ result' = get_significant_revisions(revisions_result, locals',
                                                 call.start_datetime, call.end_datetime,
                                                 call.limit, call.min_significance)
    /\ UNCHANGED <<revisions, api, call>>

-----------------------------------------------------------------------------
(* SpecFilter: both analyses on histories of up to 4 revisions saved half  *)
(* a day or a day apart, some with a timestamp that is no ISO date, under  *)
(* date bounds that are omitted, valid, empty, malformed or without zone   *)

MaxFilterRevs == 4

FilterStart == IsoZ(1, 0)

FilterEnd == IsoZ(2, 0)

\* the <<start_datetime, end_datetime>> pairs of the calls
FilterBounds ==
    {<<None, None>>, <<FilterStart, None>>, <<None, FilterEnd>>, <<FilterStart, FilterEnd>>,
     <<Garbage, None>>, <<None, Garbage>>, <<IsoNaive(1, 0), None>>, <<None, IsoNaive(2, 0)>>,
     <<FilterStart, Garbage>>, <<EmptyStr, None>>}

\* the source saves a revision whose record carries a malformed timestamp
SaveEditUnparseable(delta, user, size, comment) ==
    /\ revisions' = <<[NewRevision(revisions, delta, user, size, comment)
                          EXCEPT !.timestamp = Garbage]>> \o revisions
    /\ call' = NoCall
    /\ result' = NoResult
    /\ locals' = NoLocals
    /\ previous' = NoResult
    /\ UNCHANGED api

EditFilter ==
    /\ Len(revisions) < MaxFilterRevs
    /\ \E delta \in {SecondsPerDay \div 2, SecondsPerDay}, bad \in BOOLEAN :
          IF bad THEN SaveEditUnparseable(delta, "User2", 1000, <<>>)
          ELSE SaveEdit(delta, "User1", 1000, <<>>)

AnalyzeFilter ==
    /\ Len(revisions) > 0
    /\ \E bounds \in FilterBounds, window_size \in {"day", "week", "hour"} :
          CallAnalyzeEditActivity(bounds[1], bounds[2], window_size, Ratio(1, 1))

RankFilter ==
    /\ Len(revisions) > 0
    /\ \E bounds \in FilterBounds :
          CallGetSignificantRevisions(bounds[1], bounds[2], 50, Ratio(0, 1))

NextFilter ==
    \/ EditFilter
    \/ AnalyzeFilter
    \/ RankFilter
    \/ RepeatAnalyzeEditActivity
    \/ RepeatGetSignificantRevisions
    \/ Discard

SpecFilter == Init /\ [][NextFilter]_vars

-----------------------------------------------------------------------------
(* SpecSource: the page is there, missing, or the fetch fails, inside      *)
(* get_page_revisions or past it; histories of up to 4 revisions           *)

MaxSourceRevs == 4

SourceStates == {"ok", "missing", "error", "raises"}

\* the page is deleted or restored, the network fails or recovers
SourceChanges ==
    /\ call = NoCall
    /\ \E status \in SourceStates \ {api} : api' = status
    /\ UNCHANGED <<revisions, call, result, locals, previous>>

EditSource ==
    /\ Len(revisions) < MaxSourceRevs
    /\ api = "ok"
    /\ \E delta \in {0, SecondsPerDay} : SaveEdit(delta, "User1", 1000, <<>>)

AnalyzeSource ==
    /\ api \in SourceStates
    /\ CallAnalyzeEditActivity(None, None, "day", Ratio(1, 1))

RankSource ==
    /\ api \in SourceStates
    /\ \E start_datetime \in {None, IsoZ(1, 1)} :
          CallGetSignificantRevisions(start_datetime, None, 50, Ratio(0, 1))

NextSource == SourceChanges \/ EditSource \/ AnalyzeSource \/ RankSource \/ Discard

SpecSource == Init /\ [][NextSource]_vars

-----------------------------------------------------------------------------
(* Properties of analyze_edit_activity                                     *)

ActivityReturned == call.op = "analyze_edit_activity"

\* the call went past the fetch: the filter and grouping loops ran
Grouped == ActivityReturned /\ "grouped_activity" \in DOMAIN locals

\* the call returned statistics and a spike list
Analysed == ActivityReturned /\ "spikes" \in DOMAIN result

Spikes == Range(result.spikes)

\* the window of grouped_activity a spike entry reports
WindowOf(spike) ==
    CHOOSE w \in 1..Len(locals.grouped_activity) :
        locals.grouped_activity[w].window = spike.window

EditsIn(w) == locals.grouped_activity[w].edit_count

EditorsIn(w) == Cardinality(locals.grouped_activity[w].editors)

EditSeries == [w \in 1..Len(locals.grouped_activity) |-> EditsIn(w)]

EditorSeries == [w \in 1..Len(locals.grouped_activity) |-> EditorsIn(w)]

\* (c - mean(xs)) / stdev(xs) >= p/q, where stdev is the sample standard
\* deviation and the quotient counts as 0 when stdev is 0 -- stated on the
\* integers  D = n*c - sum(xs)  and  V = n*sum(x^2) - sum(xs)^2,  for which
\* z = sign(D) * sqrt(D^2 * (n - 1) / (n * V))
ZAtLeast(xs, c, p, q) ==
    LET n == Len(xs)
        D == n * c - SumSeq(xs)
        V == n * SumSq(xs) - SumSeq(xs) * SumSeq(xs)
    IN  IF V = 0 THEN p <= 0
        ELSE IF D >= 0 THEN p <= 0 \/ D * D * (n - 1) * q * q >= p * p * n * V
        ELSE p < 0 /\ D * D * (n - 1) * q * q <= p * p * n * V

\* the same for  z <= -3
ZAtMostMinusThree(xs, c) ==
    LET n == Len(xs)
        D == n * c - SumSeq(xs)
        V == n * SumSq(xs) - SumSeq(xs) * SumSeq(xs)
    IN  V > 0 /\ D < 0 /\ D * D * (n - 1) >= 9 * n * V

Qualifies(w, t) ==
    \/ ZAtLeast(EditSeries, EditsIn(w), t.p, t.q)
    \/ ZAtLeast(EditorSeries, EditorsIn(w), t.p, t.q)

AllEqual(xs) == \A i, j \in 1..Len(xs) : xs[i] = xs[j]

\* how often a revision occurs among the members of the windows
Occurrences(rev) ==
    SumSeq([w \in 1..Len(locals.grouped_activity) |->
               Cardinality({j \in 1..Len(locals.grouped_activity[w].revisions) :
                               locals.grouped_activity[w].revisions[j] = rev})])

\* C1: every revision that survives the date filter is a member of exactly
\* one window, each window counts its members, and the edit counts of the
\* windows add up to the number of filtered revisions, which is what
\* total_revisions_analyzed reports.
InvC1_WindowsPartitionFiltered ==
    Grouped =>
        /\ \A i \in 1..Len(locals.filtered_revisions) :
               Occurrences(locals.filtered_revisions[i]) = 1
        /\ \A w \in 1..Len(locals.grouped_activity) :
               EditsIn(w) = Len(locals.grouped_activity[w].revisions)
        /\ SumSeq(EditSeries) = Len(locals.filtered_revisions)
        /\ Analysed =>
               result.statistics.total_revisions_analyzed = Len(locals.filtered_revisions)

WitC1_FilteredIntoSeveralWindows ==
    /\ Analysed
    /\ Len(locals.filtered_revisions) < Len(revisions)
    /\ \E w \in 1..Len(locals.grouped_activity) : EditsIn(w) >= 2

\* C2: with at least 3 windows, the spike list holds exactly the windows
\* whose edit z-score or editor z-score is at least z_threshold (z against
\* the mean and the sample standard deviation of the per-window counts):
\* one entry per qualifying window, no other window.
InvC2_SpikesAreTheQualifyingWindows ==
    Analysed =>
        LET qualifying == {w \in 1..Len(locals.grouped_activity) :
                              Qualifies(w, call.z_threshold)}
        IN  /\ {s.window : s \in Spikes} =
                   {locals.grouped_activity[w].window : w \in qualifying}
            /\ Len(result.spikes) = Cardinality(qualifying)
            /\ result.spikes_detected = Len(result.spikes)

\* some window qualifies, one of them with a z-score equal to the threshold,
\* and some window does not
WitC2_SomeQualifySomeNot ==
    /\ Analysed
    /\ call.z_threshold = [p |-> 3, q |-> 2]
    /\ Len(result.spikes) > 0
    /\ Len(result.spikes) < Len(locals.grouped_activity)
    /\ \E s \in Spikes : s.edit_z_score = 150

BelowBothMeans(w) ==
    /\ EditsIn(w) * Len(EditSeries) < SumSeq(EditSeries)
    /\ EditorsIn(w) * Len(EditorSeries) < SumSeq(EditorSeries)

\* C3 as stated: a window whose edit count and editor count are both below
\* their means is never reported as a spike, whatever z_threshold is.
InvC3_BelowMeanNeverSpike ==
    Analysed => \A s \in Spikes : ~BelowBothMeans(WindowOf(s))

\* C3, amended: for every z_threshold >= 0, a window whose edit count and
\* editor count are both below their means is never reported as a spike.
InvC3_BelowMeanNeverSpikeNonNegativeThreshold ==
    (Analysed /\ call.z_threshold.p >= 0) =>
        \A s \in Spikes : ~BelowBothMeans(WindowOf(s))

WitC3_BelowMeanWindowNotFlagged ==
    /\ Analysed
    /\ call.z_threshold.p >= 0
    /\ Len(result.spikes) > 0
    /\ \E w \in 1..Len(locals.grouped_activity) : BelowBothMeans(w)

\* C4: when all windows have the same edit count the edit z-score of every
\* window is 0, and likewise for the editor counts: the call returns its
\* statistics, the reported z-scores of that series are 0, and when both
\* series are constant the windows are all spikes for a threshold <= 0 and
\* none is for a threshold > 0.
InvC4_ZeroDeviationZeroZ ==
    (Grouped /\ Len(locals.grouped_activity) >= 3) =>
        /\ Analysed
        /\ AllEqual(EditSeries) =>
               /\ result.statistics.edit_statistics.stdev = 0
               /\ \A s \in Spikes : s.edit_z_score = 0
        /\ AllEqual(EditorSeries) =>
               /\ result.statistics.editor_statistics.stdev = 0
               /\ \A s \in Spikes : s.editor_z_score = 0
        /\ (AllEqual(EditSeries) /\ AllEqual(EditorSeries)) =>
               Len(result.spikes) =
                   IF call.z_threshold.p <= 0 THEN Len(locals.grouped_activity) ELSE 0

WitC4_ConstantEditorSeriesWithSpike ==
    /\ Analysed
    /\ AllEqual(EditorSeries)
    /\ ~AllEqual(EditSeries)
    /\ call.z_threshold.p > 0
    /\ \E s \in Spikes : s.editor_z_score = 0 /\ s.edit_z_score > 0

\* the distinct window labels of the filtered revisions
WindowLabels ==
    {WindowKey(locals.filtered_revisions[i].parsed_timestamp, call.window_size) :
        i \in 1..Len(locals.filtered_revisions)}

InsufficientMessage ==
    "Insufficient data for statistical analysis (need at least 3 time windows)"

\* C5: whenever the filtered revisions fall into fewer than 3 distinct
\* windows the call returns the insufficient-data error with the number of
\* windows, without statistics or spike list, and computes no mean or
\* standard deviation.
InvC5_FewerThanThreeWindowsIsError ==
    (Grouped /\ Cardinality(WindowLabels) < 3) =>
        /\ "error" \in DOMAIN result
        /\ result.error = InsufficientMessage
        /\ result.total_windows = Cardinality(WindowLabels)
        /\ DOMAIN result \cap {"statistics", "spikes", "spikes_detected"} = {}
        /\ DOMAIN locals \cap {"edit_mean", "edit_stdev", "editor_mean", "editor_stdev"} = {}

WitC5_TwoWindows ==
    /\ Grouped
    /\ Cardinality(WindowLabels) = 2
    /\ Len(locals.filtered_revisions) >= 3
    /\ "error" \in DOMAIN result

\* the counts of the windows, oldest window first
Chronological(series) == [i \in 1..Len(series) |-> series[Len(series) + 1 - i]]

ScenarioReached ==
    /\ Analysed
    /\ call.z_threshold = [p |-> 3, q |-> 2]
    /\ Chronological(EditSeries) = ScenarioCounts
    /\ Chronological(EditorSeries) = ScenarioCounts

\* C6: with 7 daily windows of edit counts and editor counts
\* [1,2,1,10,1,2,1] and z_threshold 1.5 exactly one spike is reported, the
\* fourth day with its 10 edits.
InvC6_ScenarioOneSpike ==
    ScenarioReached =>
        /\ Len(result.spikes) = 1
        /\ result.spikes[1].edit_count = 10
        /\ result.spikes[1].window = [date |-> <<2024, 1, 5>>, suffix |-> ""]
        /\ WindowOf(result.spikes[1]) = 4

WitC6_ScenarioAnalysed == ScenarioReached /\ result.spikes_detected = 1

\* C7: a spike's severity is 'high' exactly when the larger of its edit and
\* editor z-scores is at least 3, and 'moderate' otherwise.
InvC7_HighIffMaxZAtLeastThree ==
    Analysed =>
        \A s \in Spikes :
            /\ s.significance \in {"high", "moderate"}
            /\ s.significance = "high" <=>
                   \/ ZAtLeast(EditSeries, EditsIn(WindowOf(s)), 3, 1)
                   \/ ZAtLeast(EditorSeries, EditorsIn(WindowOf(s)), 3, 1)

WitC7_HighAndModerateSpikes ==
    /\ Analysed
    /\ \E s \in Spikes : s.significance = "high" /\ s.edit_z_score >= 300
    /\ Len(locals.grouped_activity) >= 11

\* C8 as stated: a spike's severity is 'high' exactly when the larger of
\* |edit z| and |editor z| is at least 3, so also when one z-score is at or
\* below -3.
InvC8_HighIffMaxAbsZAtLeastThree ==
    Analysed =>
        \A s \in Spikes :
            s.significance = "high" <=>
                \/ ZAtLeast(EditSeries, EditsIn(WindowOf(s)), 3, 1)
                \/ ZAtLeast(EditorSeries, EditorsIn(WindowOf(s)), 3, 1)
                \/ ZAtMostMinusThree(EditSeries, EditsIn(WindowOf(s)))
                \/ ZAtMostMinusThree(EditorSeries, EditorsIn(WindowOf(s)))

OneZAtMostMinusThreeOtherBelowThree(w) ==
    /\ \/ ZAtMostMinusThree(EditSeries, EditsIn(w))
       \/ ZAtMostMinusThree(EditorSeries, EditorsIn(w))
    /\ ~ZAtLeast(EditSeries, EditsIn(w), 3, 1)
    /\ ~ZAtLeast(EditorSeries, EditorsIn(w), 3, 1)

\* C8, amended: the severity follows the signed z-scores; a spike one of
\* whose z-scores is at or below -3 while the other is below 3 has severity
\* 'moderate'.
InvC8_ZBelowMinusThreeIsModerate ==
    Analysed =>
        \A s \in Spikes :
            OneZAtMostMinusThreeOtherBelowThree(WindowOf(s)) => s.significance = "moderate"

WitC8_SpikeWithZBelowMinusThree ==
    /\ Analysed
    /\ \E s \in Spikes :
          /\ OneZAtMostMinusThreeOtherBelowThree(WindowOf(s))
          /\ s.edit_z_score <= 0 - 300
          /\ s.significance = "moderate"

\* the larger of the two z-scores a spike entry reports
ReportedMaxZ(s) == IF s.edit_z_score >= s.editor_z_score
                   THEN s.edit_z_score ELSE s.editor_z_score

\* C9: the spike list is ordered so that the larger of the reported edit
\* and editor z-scores never increases from one entry to the next.
InvC9_SpikesSortedByMaxZ ==
    Analysed =>
        \A i \in 1..(Len(result.spikes) - 1) :
            ReportedMaxZ(result.spikes[i]) >= ReportedMaxZ(result.spikes[i + 1])

\* two spikes are returned in the reverse of the order their windows were
\* met in
WitC9_SortMovedASpike ==
    /\ Analysed
    /\ \E i, j \in 1..Len(result.spikes) :
          /\ i < j
          /\ WindowOf(result.spikes[i]) > WindowOf(result.spikes[j])
          /\ ReportedMaxZ(result.spikes[i]) > ReportedMaxZ(result.spikes[j])

-----------------------------------------------------------------------------
(* Properties of _calculate_significance_score                             *)

ScoreReturned == call.op = "_calculate_significance_score"

\* C10: _calculate_significance_score returns a value in [0, 1] for every
\* revision, index, article size and author-count mapping.
InvC10_ScoreInUnitInterval ==
    ScoreReturned =>
        /\ ~result.raised
        /\ FracLeq(FracZero, result.value)
        /\ FracLeq(result.value, FracOne)

InUnitInterval(x) == FracLeq(FracZero, x) /\ FracLeq(x, FracOne)

\* 0.30 * s + 0.25 * r + 0.20 * e + 0.15 * d + 0.10 * w
ClaimedSum(s, r, e, d, w) ==
    FracAdd(FracMul(Frac(30, 100), s),
    FracAdd(FracMul(Frac(25, 100), r),
    FracAdd(FracMul(Frac(20, 100), e),
    FracAdd(FracMul(Frac(15, 100), d), FracMul(Frac(10, 100), w)))))

\* C11: the score returned is 0.30*size + 0.25*revert + 0.20*experience +
\* 0.15*discussion + 0.10*edit_war of the five sub-scores the function
\* computed, each of which lies in [0,1]; the weights add up to 1, so the
\* sum is at most 1 and the final min(score, 1.0) returns it unchanged.
InvC11_ScoreIsWeightedSum ==
    (ScoreReturned /\ ~result.raised) =>
        /\ InUnitInterval(locals.score.normalized_size_change)
        /\ InUnitInterval(locals.score.revert_score)
        /\ InUnitInterval(locals.score.experience_factor)
        /\ InUnitInterval(locals.score.discussion_score)
        /\ InUnitInterval(locals.score.edit_war_score)
        /\ WeightSize + WeightRevert + WeightExperience + WeightDiscussion + WeightEditWar = 100
        /\ result.value = ClaimedSum(locals.score.normalized_size_change,
                                     locals.score.revert_score,
                                     locals.score.experience_factor,
                                     locals.score.discussion_score,
                                     locals.score.edit_war_score)
        /\ FracLeq(result.value, FracOne)

WitC11_AllFiveSubScoresPositive ==
    /\ ScoreReturned
    /\ ~result.raised
    /\ locals.score.normalized_size_change.n > 0
    /\ locals.score.revert_score.n > 0
    /\ locals.score.experience_factor.n > 0
    /\ locals.score.discussion_score.n > 0
    /\ locals.score.edit_war_score.n > 0
    /\ result.value # FracOne

\* the score of the call's revision, its sizediff replaced by d
ScoreWithSizediff(d) ==
    _calculate_significance_score(
        Put(locals.filtered_revisions[call.index + 1], "sizediff", IntOf(d)),
        locals.filtered_revisions, call.index, call.article_size,
        call.user_edit_counts).value

SizeChanges == <<0, 40, 100, 200, 2000>>

\* C12: with the revision's other fields, the index, the revision list, the
\* article size and the author counts fixed, a larger |sizediff| never gives
\* a lower score, and sizediffs of equal magnitude give the same score.
InvC12_ScoreMonotonicInSizeChange ==
    ScoreReturned =>
        /\ ~result.raised =>
               result.value =
                   ScoreWithSizediff(locals.filtered_revisions[call.index + 1].sizediff.v)
        /\ \A i \in 1..Len(SizeChanges) :
               ScoreWithSizediff(0 - SizeChanges[i]) = ScoreWithSizediff(SizeChanges[i])
        /\ \A i \in 1..(Len(SizeChanges) - 1) :
               FracLeq(ScoreWithSizediff(SizeChanges[i]), ScoreWithSizediff(SizeChanges[i + 1]))

WitC12_ScoreGrowsWithSizeChange ==
    /\ ScoreReturned
    /\ ~result.raised
    /\ locals.filtered_revisions[call.index + 1].sizediff.v < 0
    /\ ScoreWithSizediff(0) # result.value
    /\ ScoreWithSizediff(2000) # result.value
    /\ ScoreWithSizediff(200) = ScoreWithSizediff(2000)

-----------------------------------------------------------------------------
(* Properties of _calculate_revert_score and _calculate_edit_war_score     *)

RevertReturned == call.op = "_calculate_revert_score"

\* the revision a sub-score call is about, and the seconds between it and
\* the revision at 0-based position i of the newest-first list, by the clock
Target == locals.filtered_revisions[call.index + 1]

GapTo(i) == Abs(locals.filtered_revisions[i + 1].saved - Target.saved)

SizeGapTo(i) == Abs(locals.filtered_revisions[i + 1].size - Target.size)

\* the positions the scan visits
ScanWindow == {i \in 0..(Len(locals.filtered_revisions) - 1) :
                  call.index - 5 <= i /\ i <= call.index - 1}

\* the candidates the code accepts: less than an hour away, less than 50
\* bytes apart
Qualifying == {i \in ScanWindow : GapTo(i) < 3600 /\ SizeGapTo(i) < 50}

First(S) == CHOOSE i \in S : \A j \in S : i <= j

\* value = max(0, 1 - gap / 3600)
IsRevertScoreFor(value, gap) ==
    IF gap >= 3600 THEN value.n = 0 ELSE value.n * 3600 = (3600 - gap) * value.d

\* C13: _calculate_revert_score looks at positions index-5 .. index-1 only
\* and returns the score of the first qualifying candidate in that order,
\* even when a later one would score higher; it returns 0 when no candidate
\* in the window qualifies.
InvC13_FirstQualifyingInWindow ==
    RevertReturned =>
        IF Qualifying = {} THEN result.value.n = 0
        ELSE IsRevertScoreFor(result.value, GapTo(First(Qualifying)))

WitC13_FirstIsNotBestAndWindowEnds ==
    /\ RevertReturned
    /\ call.index = 6
    /\ GapTo(0) < 3600 /\ SizeGapTo(0) < 50
    /\ \E i, j \in Qualifying : i < j /\ GapTo(j) < GapTo(i)
    /\ IsRevertScoreFor(result.value, GapTo(First(Qualifying)))
    /\ \E j \in Qualifying : ~IsRevertScoreFor(result.value, GapTo(j))

\* C14: a candidate exactly 3600 seconds from the target does not qualify:
\* when a later candidate of the scan qualifies, the call returns that one's
\* (positive) score, not the 0 the 3600-second candidate would give.
InvC14_ExactlyAnHourDoesNotQualify ==
    RevertReturned =>
        \A i \in ScanWindow :
            (GapTo(i) = 3600 /\ SizeGapTo(i) < 50
                /\ (\A h \in ScanWindow : h < i => h \notin Qualifying)
                /\ (\E j \in Qualifying : j > i))
            => /\ result.value.n > 0
               /\ \E j \in Qualifying : j > i /\ IsRevertScoreFor(result.value, GapTo(j))

WitC14_ScanPassesTheHourCandidate ==
    /\ RevertReturned
    /\ \E i \in ScanWindow :
          /\ GapTo(i) = 3600
          /\ SizeGapTo(i) < 50
          /\ \A h \in ScanWindow : h < i => h \notin Qualifying
          /\ \E j \in Qualifying : j > i
    /\ result.value.n > 0

\* the candidates C15 describes: within the hour, at most 50 bytes apart
WithinFiftyBytes == {i \in ScanWindow : GapTo(i) < 3600 /\ SizeGapTo(i) <= 50}

\* C15: a candidate at most 50 bytes (50 included) from the target's size
\* and within the hour is a probable revert: the first such candidate of the
\* scan decides the result, max(0, 1 - gap/3600).
InvC15_FiftyBytesQualifies ==
    (RevertReturned /\ WithinFiftyBytes # {}) =>
        IsRevertScoreFor(result.value, GapTo(First(WithinFiftyBytes)))

EditWarReturned == call.op = "_calculate_edit_war_score"

\* the revisions of the whole list within a day of the target, both ways
WithinADay == {i \in 0..(Len(locals.filtered_revisions) - 1) : GapTo(i) <= 86400}

\* C16: _calculate_edit_war_score returns min(count / 20, 1), count being
\* the number of revisions of the whole list whose time is within 86400
\* seconds of the target's, the bound included and the target counted.
InvC16_EditWarCountsWithinADay ==
    EditWarReturned =>
        /\ call.index \in WithinADay
        /\ IF Cardinality(WithinADay) >= 20 THEN result.value = FracOne
           ELSE result.value.n * 20 = Cardinality(WithinADay) * result.value.d

WitC16_BoundaryRevisionSaturates ==
    /\ EditWarReturned
    /\ Cardinality(WithinADay) = 20
    /\ \E i \in WithinADay : GapTo(i) = 86400 /\ i > call.index + 1
    /\ \E i \in 0..(Len(locals.filtered_revisions) - 1) : i \notin WithinADay
    /\ result.value = FracOne

\* the edits of the target's author among the filtered revisions, or 1 when
\* the mapping handed to the function does not know the author
AuthorEdits ==
    IF Target.user \in DOMAIN call.user_edit_counts
    THEN Cardinality({i \in 1..Len(locals.filtered_revisions) :
                         locals.filtered_revisions[i].user = Target.user})
    ELSE 1

\* min(1, 5 / max(m, 1)) for a count m
ExperienceOfCount(m) == IF m <= 5 THEN FracOne ELSE Frac(5, m)

\* C17 as stated: the experience sub-score is min(1, 5 / max(count, 1)) and
\* an author with 5 or more edits gets the lowest value the sub-score takes.
InvC17_FiveEditsGiveTheFloor ==
    (ScoreReturned /\ ~result.raised) =>
        /\ locals.score.experience_factor = ExperienceOfCount(AuthorEdits)
        /\ AuthorEdits >= 5 =>
               \A m \in 1..(AuthorEdits + 1) :
                   FracLeq(locals.score.experience_factor, ExperienceOfCount(m))

\* C17, amended: the experience sub-score is min(1, 5 / max(count, 1)): the
\* highest value 1 for an author with at most 5 edits, and 5 / count, lower
\* with every further edit and without a floor, for an author with more.
InvC17_ExperienceFallsBeyondFiveEdits ==
    (ScoreReturned /\ ~result.raised) =>
        /\ locals.score.experience_factor = ExperienceOfCount(AuthorEdits)
        /\ AuthorEdits <= 5 => locals.score.experience_factor = FracOne
        /\ AuthorEdits > 5 =>
               /\ locals.score.experience_factor.n * AuthorEdits
                      = 5 * locals.score.experience_factor.d
               /\ ~FracLeq(ExperienceOfCount(AuthorEdits - 1),
                           locals.score.experience_factor)
               /\ ~FracLeq(locals.score.experience_factor,
                           ExperienceOfCount(AuthorEdits + 1))

WitC17_AuthorWithManyEdits ==
    /\ ScoreReturned
    /\ ~result.raised
    /\ AuthorEdits >= 7
    /\ locals.score.experience_factor # FracOne

-----------------------------------------------------------------------------
(* Properties of get_significant_revisions                                 *)

RankReturned == call.op = "get_significant_revisions"

Ranked == RankReturned /\ "top_revisions" \in DOMAIN result

\* the revisions of the history that lie in the requested period, by the clock
StartSecs ==
    IF IsNone(call.start_datetime) THEN 0
    ELSE call.start_datetime.day * 86400 + call.start_datetime.sec

Survivors == {i \in 1..Len(revisions) : revisions[i].saved >= StartSecs}

\* the filtered revisions whose score reaches min_significance
Passing ==
    {i \in 1..Len(locals.score_locals) :
        /\ ~locals.score_locals[i].raised
        /\ PassesThreshold(ScoreOf(locals.score_locals[i]).value, call.min_significance)}

\* C18: with 2 or more filtered revisions get_significant_revisions scores
\* every one of them, reports their number as total_revisions_analyzed and
\* the number that reach min_significance as significant_revisions_found,
\* returns min(limit, found) entries for a limit >= 0, and every entry's
\* significance_score is at least min_significance.
InvC18_EveryRevisionScoredAndRanked ==
    (RankReturned /\ Cardinality(Survivors) >= 2) =>
        /\ "top_revisions" \in DOMAIN result
        /\ Len(locals.score_locals) = Cardinality(Survivors)
        /\ result.total_revisions_analyzed = Cardinality(Survivors)
        /\ result.significant_revisions_found = Cardinality(Passing)
        /\ call.limit >= 0 =>
               Len(result.top_revisions) = Min2(call.limit, Cardinality(Passing))
        /\ \A i \in 1..Len(result.top_revisions) :
               result.top_revisions[i].significance_score * call.min_significance.q
                   >= 1000 * call.min_significance.p

\* C19: top_revisions is in non-increasing order of significance_score, and
\* of two entries with the same score the newer revision (the one earlier
\* in the newest-first list) comes first.
InvC19_TopRevisionsSortedStable ==
    Ranked =>
        \A i, j \in 1..Len(result.top_revisions) :
            i < j =>
                /\ result.top_revisions[i].significance_score
                       >= result.top_revisions[j].significance_score
                /\ result.top_revisions[i].significance_score
                       = result.top_revisions[j].significance_score
                   => result.top_revisions[i].revid > result.top_revisions[j].revid

WitC19_TieKeptAndEntryMoved ==
    /\ Ranked
    /\ Len(result.top_revisions) >= 3
    /\ \E i, j \in 1..Len(result.top_revisions) :
          /\ i < j
          /\ result.top_revisions[i].significance_score
                 = result.top_revisions[j].significance_score
    /\ \E i, j \in 1..Len(result.top_revisions) :
          /\ i < j
          /\ result.top_revisions[i].revid < result.top_revisions[j].revid

InsufficientRevisions == "Insufficient revision data for significance analysis"

\* C20: get_significant_revisions returns the insufficient-revision-data
\* error exactly when fewer than 2 revisions survive the date filter, and
\* then it has computed no score.
InvC20_FewerThanTwoRevisionsIsError ==
    RankReturned =>
        /\ Cardinality(Survivors) < 2 <=>
               ("error" \in DOMAIN result /\ result.error = InsufficientRevisions)
        /\ Cardinality(Survivors) < 2 =>
               /\ DOMAIN result = {"title", "analysis_period", "error"}
               /\ "score_locals" \notin DOMAIN locals

WitC20_OneRevisionSurvives ==
    /\ RankReturned
    /\ Len(revisions) >= 3
    /\ Cardinality(Survivors) = 1
    /\ result.error = InsufficientRevisions

-----------------------------------------------------------------------------
(* Properties of the date-range filter                                     *)

\* one of the two analyses returned after a successful fetch
FilterReturned ==
    /\ call.op \in {"analyze_edit_activity", "get_significant_revisions"}
    /\ Fetched(FetchRevisions(revisions, api))

\* the records as the source supplied them
Received == get_page_revisions(revisions, api).revisions

Omitted(bound) == IsNone(bound) \/ bound = EmptyStr

\* a bound written as an ISO timestamp with zone designator
WellFormed(bound) == bound.k = "iso" /\ bound.tz = "Z"

BoundSecs(bound) == bound.day * 86400 + bound.sec

\* by the source's clock, the revision lies within the call's bounds
InRange(rev) ==
    /\ rev.timestamp.k = "iso"
    /\ Omitted(call.start_datetime) \/ BoundSecs(call.start_datetime) <= rev.saved
    /\ Omitted(call.end_datetime) \/ rev.saved <= BoundSecs(call.end_datetime)

Revids(revs) == [i \in 1..Len(revs) |-> revs[i].revid]

\* C21: with each bound omitted or well formed, the filter of both analyses
\* retains exactly the revisions whose timestamp parses and lies within
\* [start, end], both ends included, in the order the source supplied them.
InvC21_FilterKeepsExactlyTheRange ==
    (/\ FilterReturned
     /\ Omitted(call.start_datetime) \/ WellFormed(call.start_datetime)
     /\ Omitted(call.end_datetime) \/ WellFormed(call.end_datetime))
    => Revids(locals.filtered_revisions) = Revids(SelectSeq(Received, InRange))

WitC21_BothEndsKeptOutsidersDropped ==
    /\ FilterReturned
    /\ call.start_datetime = FilterStart
    /\ call.end_datetime = FilterEnd
    /\ Len(revisions) = 4
    /\ revisions[4].saved < BoundSecs(FilterStart)
    /\ revisions[3].saved = BoundSecs(FilterStart)
    /\ revisions[2].saved = BoundSecs(FilterEnd)
    /\ revisions[1].saved > BoundSecs(FilterEnd)
    /\ Revids(locals.filtered_revisions) = <<3, 2>>

\* the locals and the result of the returned call's operation on a given
\* answer of the source
LocalsOn(revisions_result) ==
    IF call.op = "analyze_edit_activity"
    THEN WithStatistics(ActivityLocals(revisions_result, call.start_datetime,
                                       call.end_datetime, call.window_size))
    ELSE WithScores(WithEditCounts(FilterLocals(revisions_result, call.start_datetime,
                                                call.end_datetime)))

ResultOn(revisions_result) ==
    IF call.op = "analyze_edit_activity"
    THEN analyze_edit_activity(revisions_result, LocalsOn(revisions_result),
                               call.start_datetime, call.end_datetime, call.window_size,
                               call.z_threshold)
    ELSE get_significant_revisions(revisions_result, LocalsOn(revisions_result),
                                   call.start_datetime, call.end_datetime, call.limit,
                                   call.min_significance)

Unparseable(rev) == rev.timestamp.k # "iso"

\* the supplied records without those whose timestamp is no ISO date
ParseableOnly ==
    [exists |-> TRUE, revisions |-> SelectSeq(Received, LAMBDA r : ~Unparseable(r))]

\* everything the call computed from the records it kept
Derived(loc) == [k \in (DOMAIN loc) \ {"all_revisions"} |-> loc[k]]

\* C22: a revision whose timestamp cannot be parsed is dropped on its own:
\* the call returns what it returns when the source supplies the batch
\* without such revisions, and its windows, statistics, author counts and
\* scores are those of that batch.
InvC22_UnparseableRevisionDroppedAlone ==
    FilterReturned =>
        /\ result = ResultOn(ParseableOnly)
        /\ Derived(locals) = Derived(LocalsOn(ParseableOnly))
        /\ \A i \in 1..Len(locals.filtered_revisions) :
               ~Unparseable(locals.filtered_revisions[i])

WitC22_RankedWithoutTheUnparseableRevision ==
    /\ call.op = "get_significant_revisions"
    /\ previous = NoResult
    /\ Len(revisions) = 4
    /\ Unparseable(revisions[4])
    /\ "top_revisions" \in DOMAIN result
    /\ result.total_revisions_analyzed = 3
    /\ Len(result.top_revisions) = 3
    /\ DOMAIN locals.user_edit_counts = {"User1"}

-----------------------------------------------------------------------------
(* Properties of the error outcomes                                        *)

AnalysisReturned == call.op \in {"analyze_edit_activity", "get_significant_revisions"}

\* the dict that reports a failure with the given message
FailureWith(message) == [title |-> "Test Article", exists |-> FALSE, error |-> message]

\* a scoring call of the ranking loop raised
ScoringRaised ==
    /\ "score_locals" \in DOMAIN locals
    /\ \E i \in 1..Len(locals.score_locals) : locals.score_locals[i].raised

\* C23: neither analysis lets an exception out: when the revision source
\* raises, or a computation step raises, the call returns a dict with
\* exists = false and the exception's message in 'error'.
InvC23_ExceptionsBecomeErrorResults ==
    AnalysisReturned =>
        /\ "raised" \notin DOMAIN result
        /\ api = "raises" => result = FailureWith("API Error")
        /\ ScoringRaised => result = FailureWith("bad operand type for abs(): 'NoneType'")

WitC23_SourceRaisedOnAnalysis ==
    /\ call.op = "analyze_edit_activity"
    /\ api = "raises"
    /\ Len(revisions) = 4
    /\ result.exists = FALSE
    /\ result.error = "API Error"

\* the days, by the source's clock, on which the history has revisions
DaysWithEdits == {revisions[i].saved \div 86400 : i \in 1..Len(revisions)}

\* the source supplies the history, and it is too short for the analysis
\* (the analysis calls of SpecSource carry no end bound, and only the
\* ranking calls a start bound)
TooShortForCall ==
    /\ api = "ok"
    /\ \/ call.op = "analyze_edit_activity" /\ Cardinality(DaysWithEdits) < 3
       \/ call.op = "get_significant_revisions" /\ Cardinality(Survivors) < 2

\* C24: when the source reports the page missing (or reports a failure of
\* its own) both analyses return exists = false with the source's message
\* unchanged and analyse nothing; an insufficient sample gives a dict that
\* has no 'exists' entry and carries the analysis's own message.
InvC24_ErrorOutcomesDistinguishable ==
    AnalysisReturned =>
        /\ api = "missing" => result = FailureWith("Page does not exist") /\ locals = NoLocals
        /\ api = "error" => result = FailureWith("API Error") /\ locals = NoLocals
        /\ TooShortForCall =>
               /\ "exists" \notin DOMAIN result
               /\ "error" \in DOMAIN result
               /\ result.error = (IF call.op = "analyze_edit_activity"
                                  THEN InsufficientMessage ELSE InsufficientRevisions)
               /\ "filtered_revisions" \in DOMAIN locals
        /\ (api = "ok" /\ "exists" \in DOMAIN result /\ ~result.exists) => ScoringRaised

WitC24_MissingPageWithLongHistory ==
    /\ call.op = "get_significant_revisions"
    /\ api = "missing"
    /\ Len(revisions) = 4
    /\ Cardinality(DaysWithEdits) = 4
    /\ result.error = "Page does not exist"
    /\ ~result.exists

-----------------------------------------------------------------------------
(* Properties of repeated calls and of the records received                *)

\* the last call repeated the call before it
Repeated == AnalysisReturned /\ previous # NoResult

\* C25: a second call with the same arguments on the same snapshot of the
\* source returns what the first call returned, although the first call
\* has left its parsed timestamps on the records.
InvC25_SecondCallReturnsTheSame ==
    Repeated => result = previous

WitC25_RankingRepeatedOnAnnotatedRecords ==
    /\ Repeated
    /\ call.op = "get_significant_revisions"
    /\ call.start_datetime = FilterStart
    /\ "top_revisions" \in DOMAIN previous
    /\ Len(previous.top_revisions) >= 2
    /\ \E i \in 1..Len(Received) : Received[i] # locals.all_revisions[i]
    /\ \E i \in 1..Len(Received) : Received[i] = locals.all_revisions[i]

\* C26: after a call of either analysis every record received from the
\* source has the fields and values it had when it was received.
InvC26_ReceivedRecordsUnchanged ==
    FilterReturned => locals.all_revisions = Received

-----------------------------------------------------------------------------
(* Properties of the window labels                                         *)

\* the call's analysis as it is with window_size = 'day'
DayLocals ==
    WithStatistics(ActivityLocals([exists |-> TRUE, revisions |-> Received],
                                  call.start_datetime, call.end_datetime, "day"))

DayResult ==
    analyze_edit_activity([exists |-> TRUE, revisions |-> Received], DayLocals,
                          call.start_datetime, call.end_datetime, "day", call.z_threshold)

\* the 'YYYY-MM-DD' label of the day of a supplied revision
DayLabels ==
    {[date |-> DateOf(fromisoformat(Received[i].timestamp)), suffix |-> ""] :
        i \in {j \in 1..Len(Received) : ~Unparseable(Received[j])}}

\* C27: with a window_size other than 'day', 'week' and 'month' the call
\* groups, computes and returns what it does with 'day' (the result echoes
\* the window_size it was given), and no label of a 'week' window equals the
\* day label of any revision.
InvC27_UnknownWindowIsDayAndWeekLabelsDistinct ==
    (ActivityReturned /\ FilterReturned) =>
        /\ call.window_size \notin {"day", "week", "month"} =>
               /\ Derived(locals) = Derived(DayLocals)
               /\ result = [DayResult EXCEPT !.window_size = call.window_size]
        /\ call.window_size = "week" =>
               \A i \in 1..Len(locals.grouped_activity) :
                   locals.grouped_activity[i].window \notin DayLabels

WitC27_UnknownWindowAnalysedByDay ==
    /\ Analysed
    /\ call.window_size = "hour"
    /\ previous = NoResult
    /\ result.statistics.total_windows = 3
    /\ result.statistics.total_revisions_analyzed = 4
    /\ result.spikes_detected = 1
    /\ result.spikes[1].window = [date |-> <<2024, 1, 2>>, suffix |-> ""]

-----------------------------------------------------------------------------
(* Properties that follow from the sample standard deviation               *)

\* z <= (n - 1) / sqrt(n), on the square of a positive z
WithinSampleBound(z, n) == z.sgn > 0 => z.num * n <= (n - 1) * (n - 1) * z.den

\* C28: get_significant_revisions returns a ranked result whenever 2 or more
\* revisions survive the filter, the oldest fetched revision among them or
\* not.
InvC28_RankedWheneverTwoSurvive ==
    (RankReturned /\ Cardinality(Survivors) >= 2) =>
        /\ "exists" \in DOMAIN result
        /\ result.exists
        /\ result.total_revisions_analyzed = Cardinality(Survivors)

\* C29: over n windows no z-score exceeds (n - 1) / sqrt(n); with 3, 4 or 5
\* windows and z_threshold 2.0 no spike is reported, and with fewer than 11
\* windows no spike is 'high'.
InvC29_FewWindowsBoundTheZScore ==
    Analysed =>
        LET n == Len(locals.grouped_activity) IN
        /\ \A w \in 1..n :
               /\ WithinSampleBound(EditZ(locals, locals.grouped_activity[w]), n)
               /\ WithinSampleBound(EditorZ(locals, locals.grouped_activity[w]), n)
        /\ (n \in 3..5 /\ call.z_threshold = [p |-> 2, q |-> 1]) =>
               result.spikes_detected = 0 /\ result.spikes = <<>>
        /\ n < 11 => \A s \in Spikes : s.significance # "high"

WitC29_FiveWindowsOneBusyDayNoSpike ==
    /\ Analysed
    /\ call.z_threshold = [p |-> 2, q |-> 1]
    /\ Len(locals.grouped_activity) = 5
    /\ Cardinality({w \in 1..5 : EditsIn(w) = 2}) = 1
    /\ Cardinality({w \in 1..5 : EditsIn(w) = 1}) = 4
    /\ result.spikes_detected = 0

-----------------------------------------------------------------------------
(* Properties of malformed bounds                                          *)

\* a bound that is given and is no ISO timestamp, or is one without zone
\* designator, which cannot be compared with the timestamps of the source
BadBound(bound) == ~Omitted(bound) /\ ~WellFormed(bound)

\* C30: when a given bound cannot be parsed or compared, every revision is
\* dropped in the filter loop: analyze_edit_activity returns its
\* insufficient-data error with total_windows = 0, get_significant_revisions
\* its insufficient-revision error; the result is no exists = false failure
\* and names no bad bound.
InvC30_BadBoundDropsEveryRevision ==
    (FilterReturned /\ (BadBound(call.start_datetime) \/ BadBound(call.end_datetime))) =>
        /\ locals.filtered_revisions = <<>>
        /\ "exists" \notin DOMAIN result
        /\ call.op = "analyze_edit_activity" =>
               /\ DOMAIN result =
                      {"title", "analysis_period", "window_size", "total_windows", "error"}
               /\ result.total_windows = 0
               /\ result.error = InsufficientMessage
        /\ call.op = "get_significant_revisions" =>
               /\ DOMAIN result = {"title", "analysis_period", "error"}
               /\ result.error = InsufficientRevisions

WitC30_MalformedEndEmptiesALongHistory ==
    /\ call.op = "analyze_edit_activity"
    /\ previous = NoResult
    /\ call.start_datetime = FilterStart
    /\ call.end_datetime = Garbage
    /\ Len(revisions) = 4
    /\ \A i \in 1..4 : ~Unparseable(revisions[i]) /\ revisions[i].saved >= BoundSecs(FilterStart)
    /\ Cardinality(DaysWithEdits) >= 3
    /\ result.total_windows = 0

====
